---------------------------- MODULE Spec2Model ----------------------------
(***************************************************************************)
(* Model of the Telegram finance bot (src/main.py): the Indonesian amount  *)
(* normalizer, the local fallback parser, the AI transaction extractor     *)
(* with its retry boundary, the multi-line splitter and the per-user       *)
(* conversation state machine in front of the record store.                *)
(*                                                                         *)
(* Python values are modelled as tagged records (PyNone, Num, Str, ...),   *)
(* text as a sequence of one-character strings, a float as an exact        *)
(* decimal m * 10^e kept in normal form (no trailing zero in m).           *)
(***************************************************************************)
EXTENDS Integers, Sequences, FiniteSets, TLC

VARIABLES
    user_data,   \* context.user_data: user id -> dict (key -> value)
    sheet_rows,  \* rows of the sheet, in append order
    sheet_up,    \* `sheet and USE_GOOGLE_SHEETS`: fixed at start-up
    now_day,     \* datetime.now(): the day of the run, in days since Monday 2024-01-01
    clock,       \* the second of the minute the last row was stamped at
    keyboards,   \* user id -> the inline keyboards the bot has shown the user
    updates,     \* how many updates the bot has handled
    last,        \* the update handled last: handler, user, reply and what it read
    call         \* the call under test of a pure function: input and result

vars == <<user_data, sheet_rows, sheet_up, now_day, clock, keyboards, updates, last, call>>

-----------------------------------------------------------------------------
(* Python values *)

PyNone == [t |-> "none"]
Str(s) == [t |-> "str", s |-> s]

RECURSIVE NormDec(_, _)
\* the normal form of the decimal m * 10^e
NormDec(m, e) ==
    IF m = 0 THEN [m |-> 0, e |-> 0]
    ELSE IF m % 10 = 0 THEN NormDec(m \div 10, e + 1)
    ELSE [m |-> m, e |-> e]

Num(m, e) == [t |-> "num", m |-> NormDec(m, e).m, e |-> NormDec(m, e).e]

IsNone(v) == v.t = "none"
IsNum(v) == v.t = "num"
IsStr(v) == v.t = "str"

\* abs(x) and -x of a number
PyAbs(v) == [v EXCEPT !.m = IF v.m < 0 THEN -v.m ELSE v.m]
PyNeg(v) == [v EXCEPT !.m = -v.m]

\* bool(v): None, 0, '', [] and {} are false
Truthy(v) ==
    CASE v.t = "none" -> FALSE
      [] v.t = "num" -> v.m # 0
      [] v.t = "str" -> v.s # <<>>
      [] v.t = "list" -> v.items # <<>>
      [] v.t = "dict" -> DOMAIN v.d # {}
      [] OTHER -> TRUE

-----------------------------------------------------------------------------
(* Text *)

DigitChars == {"0", "1", "2", "3", "4", "5", "6", "7", "8", "9"}
SpaceChars == {" ", "\n", "\t"}
UpperChars == <<"A", "B", "C", "D", "E", "F", "G", "H", "I", "J", "K", "L", "M",
                "N", "O", "P", "Q", "R", "S", "T", "U", "V", "W", "X", "Y", "Z">>
LowerChars == <<"a", "b", "c", "d", "e", "f", "g", "h", "i", "j", "k", "l", "m",
                "n", "o", "p", "q", "r", "s", "t", "u", "v", "w", "x", "y", "z">>

IsDigit(c) == c \in DigitChars
IsSpace(c) == c \in SpaceChars

DigitVal(c) ==
    CASE c = "0" -> 0 [] c = "1" -> 1 [] c = "2" -> 2 [] c = "3" -> 3
      [] c = "4" -> 4 [] c = "5" -> 5 [] c = "6" -> 6 [] c = "7" -> 7
      [] c = "8" -> 8 [] c = "9" -> 9

LowerChar(c) ==
    IF \E i \in 1..Len(UpperChars) : UpperChars[i] = c
    THEN LowerChars[CHOOSE i \in 1..Len(UpperChars) : UpperChars[i] = c]
    ELSE c

\* str.lower()
Lower(s) == [i \in 1..Len(s) |-> LowerChar(s[i])]

\* str.strip()
Strip(s) ==
    IF \A i \in 1..Len(s) : IsSpace(s[i]) THEN <<>>
    ELSE LET a == CHOOSE i \in 1..Len(s) :
                     ~IsSpace(s[i]) /\ \A k \in 1..(i - 1) : IsSpace(s[k])
             b == CHOOSE i \in 1..Len(s) :
                     ~IsSpace(s[i]) /\ \A k \in (i + 1)..Len(s) : IsSpace(s[k])
         IN  SubSeq(s, a, b)

\* w occurs in s at position i
HasAt(s, i, w) ==
    /\ i >= 1
    /\ i + Len(w) - 1 <= Len(s)
    /\ \A k \in 1..Len(w) : s[i + k - 1] = w[k]

\* `w in s`
Contains(s, w) == \E i \in 1..(Len(s) + 1) : HasAt(s, i, w)

\* s.count(c) for a character c
CountChar(s, c) == Cardinality({i \in 1..Len(s) : s[i] = c})

\* s.replace(c, '') for a character c
RECURSIVE RemoveChar(_, _)
RemoveChar(s, c) ==
    IF s = <<>> THEN <<>>
    ELSE IF Head(s) = c THEN RemoveChar(Tail(s), c)
    ELSE <<Head(s)>> \o RemoveChar(Tail(s), c)

\* s.replace(c, d) for characters c, d
ReplaceChar(s, c, d) == [i \in 1..Len(s) |-> IF s[i] = c THEN d ELSE s[i]]

\* the first position at or after i that holds no digit (Len(s) + 1 if none)
DigitRunEnd(s, i) ==
    CHOOSE j \in i..(Len(s) + 1) :
        /\ \A k \in i..(j - 1) : IsDigit(s[k])
        /\ (j = Len(s) + 1 \/ ~IsDigit(s[j]))

\* the first position at or after i that holds no whitespace
SpaceRunEnd(s, i) ==
    CHOOSE j \in i..(Len(s) + 1) :
        /\ \A k \in i..(j - 1) : IsSpace(s[k])
        /\ (j = Len(s) + 1 \/ ~IsSpace(s[j]))

-----------------------------------------------------------------------------
(* Amount Normalizer: parse_indonesian_amount *)

NoMatch == <<>>

\* the end of an optional [.,]\d+ behind the digit run that ends before a
FracEnd(s, a) ==
    IF a + 1 <= Len(s) /\ s[a] \in {".", ","} /\ IsDigit(s[a + 1])
    THEN DigitRunEnd(s, a + 1)
    ELSE a

\* \s*(?:w1|w2|...) matches at position g
SuffixAfter(s, g, sufs) == \E w \in sufs : HasAt(s, SpaceRunEnd(s, g), w)

\* the span of group 1, the digit run ending before a and the run with its
\* fraction before b: the longer number first, then the shorter (backtracking)
SuffixedSpan(s, i, a, b, sufs) ==
    IF a = i THEN NoMatch
    ELSE IF b > a /\ SuffixAfter(s, b, sufs) THEN <<i, b - 1>>
    ELSE IF SuffixAfter(s, a, sufs) THEN <<i, a - 1>>
    ELSE NoMatch

\* a suffix pattern that matches nowhere
SuffixIgnored(s, i, sufs) == NoMatch

\* (\d+(?:[.,]\d+)?)\s*(?:w1|w2|...) matched at position i: the span of group 1
MatchSuffixed(s, i, sufs) ==
    SuffixedSpan(s, i, DigitRunEnd(s, i), FracEnd(s, DigitRunEnd(s, i)), sufs)

RECURSIVE GroupsEnd(_, _)
\* the end of the longest run of [.,]\d{3} groups starting at p
GroupsEnd(s, p) ==
    IF /\ p + 3 <= Len(s)
       /\ s[p] \in {".", ","}
       /\ \A k \in 1..3 : IsDigit(s[p + k])
    THEN GroupsEnd(s, p + 4)
    ELSE p

\* the span from i when the head ends before a and the groups before g
GroupedSpan(i, a, g) ==
    IF a - i >= 1 /\ a - i <= 3 /\ g > a THEN <<i, g - 1>> ELSE NoMatch

\* (\d{1,3}(?:[.,]\d{3})+) matched at position i
MatchGrouped(s, i) == GroupedSpan(i, DigitRunEnd(s, i), GroupsEnd(s, DigitRunEnd(s, i)))

BareSpan(i, a) == IF a > i THEN <<i, a - 1>> ELSE NoMatch

\* (\d+) matched at position i
MatchBare(s, i) == BareSpan(i, DigitRunEnd(s, i))

JutaSuffixes == {<<"j", "u", "t", "a">>, <<"j", "t">>}
RibuSuffixes == {<<"r", "i", "b", "u">>, <<"r", "b">>, <<"k">>}

\* the patterns list: pattern p matched at position i
MatchPattern(p, s, i) ==
    CASE p = 1 -> MatchSuffixed(s, i, JutaSuffixes)
      [] p = 2 -> MatchSuffixed(s, i, RibuSuffixes)
      [] p = 3 -> MatchGrouped(s, i)
      [] p = 4 -> MatchBare(s, i)

\* the power of ten of each pattern's multiplier: 1000000, 1000, 1, 1
MultiplierExp(p) == CASE p = 1 -> 6 [] p = 2 -> 3 [] p = 3 -> 0 [] p = 4 -> 0

RECURSIVE SearchFrom(_, _, _)
\* the match m found at position i, else the search goes on from i + 1
FoundAt(p, s, i, m) == IF m # NoMatch THEN m ELSE SearchFrom(p, s, i + 1)

SearchFrom(p, s, i) ==
    IF i > Len(s) THEN NoMatch ELSE FoundAt(p, s, i, MatchPattern(p, s, i))

\* re.search(pattern, text).group(1): the leftmost match
Search(p, s) == SearchFrom(p, s, 1)

\* the decimal-separator normalisation of num_str
NormalizeNumStr(n) ==
    IF CountChar(n, ".") > 1 THEN RemoveChar(n, ".")
    ELSE IF CountChar(n, ",") > 1 THEN RemoveChar(n, ",")
    ELSE IF CountChar(n, ".") > 0 \/ CountChar(n, ",") > 0 THEN ReplaceChar(n, ",", ".")
    ELSE n

RECURSIVE DigitsValue(_)
\* the integer written by a string of digits
DigitsValue(ds) ==
    IF ds = <<>> THEN 0
    ELSE 10 * DigitsValue(SubSeq(ds, 1, Len(ds) - 1)) + DigitVal(ds[Len(ds)])

\* float(n) succeeds: digits around at most one '.', with a digit somewhere
FloatOk(n) ==
    /\ \A i \in 1..Len(n) : IsDigit(n[i]) \/ n[i] = "."
    /\ CountChar(n, ".") <= 1
    /\ \E i \in 1..Len(n) : IsDigit(n[i])

\* float(n) * 10^x
FloatTimes(n, x) ==
    LET dot == IF CountChar(n, ".") = 1
               THEN CHOOSE i \in 1..Len(n) : n[i] = "."
               ELSE Len(n) + 1
        frac == IF dot <= Len(n) THEN Len(n) - dot ELSE 0
    IN  Num(DigitsValue(RemoveChar(n, ".")), x - frac)

RECURSIVE TryPatterns(_, _)
\* float(num_str) * multiplier for the normalised num_str n of pattern p; a
\* ValueError moves to the next pattern
Converted(p, s, n) ==
    IF FloatOk(n) THEN FloatTimes(n, MultiplierExp(p)) ELSE TryPatterns(p + 1, s)

\* pattern p with the outcome m of its search
Tried(p, s, m) ==
    IF m = NoMatch THEN TryPatterns(p + 1, s)
    ELSE Converted(p, s, NormalizeNumStr(SubSeq(s, m[1], m[2])))

\* the loop over patterns from pattern p on
TryPatterns(p, s) == IF p > 4 THEN PyNone ELSE Tried(p, s, Search(p, s))

parse_indonesian_amount(text) == TryPatterns(1, Strip(Lower(text)))

-----------------------------------------------------------------------------
(* Dates.  A day is a day number; day 0 is Monday 2024-01-01, so d % 7 is   *)
(* datetime.weekday().  strftime("%Y-%m-%d") is modelled for the days of   *)
(* that January, which holds every date the model computes.                *)

DigitChar(n) ==
    CASE n = 0 -> "0" [] n = 1 -> "1" [] n = 2 -> "2" [] n = 3 -> "3" [] n = 4 -> "4"
      [] n = 5 -> "5" [] n = 6 -> "6" [] n = 7 -> "7" [] n = 8 -> "8" [] n = 9 -> "9"

\* date.strftime("%Y-%m-%d") of day d, for a day d of January 2024
IsoText(d) ==
    CASE d \in 0..30 ->
        <<"2", "0", "2", "4", "-", "0", "1", "-",
          DigitChar((d + 1) \div 10), DigitChar((d + 1) % 10)>>

IsoDate(d) == Str(IsoText(d))

-----------------------------------------------------------------------------
(* Local Fallback Parser: parse_transaction_locally *)

\* income_keywords, as texts
income_keywords ==
    << <<"t", "e", "r", "i", "m", "a">>,
       <<"d", "a", "p", "a", "t">>,
       <<"p", "e", "m", "a", "s", "u", "k", "a", "n">>,
       <<"m", "a", "s", "u", "k">>,
       <<"d", "i", "t", "e", "r", "i", "m", "a">>,
       <<"g", "a", "j", "i">>,
       <<"b", "o", "n", "u", "s">>,
       <<"k", "o", "m", "i", "s", "i">>,
       <<"d", "i", "v", "i", "d", "e", "n">>,
       <<"b", "u", "n", "g", "a">>,
       <<"h", "a", "d", "i", "a", "h">>,
       <<"w", "a", "r", "i", "s", "a", "n">>,
       <<"p", "e", "n", "j", "u", "a", "l", "a", "n">>,
       <<"r", "e", "f", "u", "n", "d">>,
       <<"k", "e", "m", "b", "a", "l", "i", "a", "n">>,
       <<"c", "a", "s", "h", "b", "a", "c", "k">>,
       <<"d", "i", "b", "a", "y", "a", "r", " ", "o", "l", "e", "h">>,
       <<"t", "r", "a", "n", "s", "f", "e", "r", " ", "d", "a", "r", "i">>,
       <<"k", "i", "r", "i", "m", "a", "n", " ", "d", "a", "r", "i">>,
       <<"d", "i", "b", "e", "r", "i">>,
       <<"d", "i", "k", "a", "s", "i", "h">> >>

\* expense_keywords, as texts
expense_keywords ==
    << <<"b", "e", "l", "i">>,
       <<"b", "a", "y", "a", "r">>,
       <<"b", "e", "l", "a", "n", "j", "a">>,
       <<"p", "e", "n", "g", "e", "l", "u", "a", "r", "a", "n">>,
       <<"k", "e", "l", "u", "a", "r">>,
       <<"d", "i", "b", "a", "y", "a", "r">>,
       <<"m", "e", "m", "b", "e", "l", "i">>,
       <<"m", "e", "m", "e", "s", "a", "n">>,
       <<"b", "e", "r", "l", "a", "n", "g", "g", "a", "n", "a", "n">>,
       <<"s", "e", "w", "a">>,
       <<"b", "o", "o", "k", "i", "n", "g">>,
       <<"m", "a", "k", "a", "n", "a", "n">>,
       <<"t", "r", "a", "n", "s", "p", "o", "r", "t", "a", "s", "i">>,
       <<"b", "e", "n", "s", "i", "n">>,
       <<"p", "u", "l", "s", "a">>,
       <<"t", "a", "g", "i", "h", "a", "n">>,
       <<"b", "i", "a", "y", "a">>,
       <<"i", "u", "r", "a", "n">>,
       <<"t", "r", "a", "n", "s", "f", "e", "r", " ", "k", "e">>,
       <<"k", "i", "r", "i", "m", " ", "k", "e">>,
       <<"b", "u", "a", "t">>,
       <<"u", "n", "t", "u", "k">> >>

\* category_map, in its declared order: the category and its cue words
category_map ==
    << [cat |-> <<"m", "a", "k", "a", "n", "a", "n">>,
        kws |-> << <<"m", "a", "k", "a", "n">>,
                   <<"f", "o", "o", "d">>,
                   <<"r", "e", "s", "t", "o">>,
                   <<"w", "a", "r", "u", "n", "g">>,
                   <<"c", "a", "f", "e">>,
                   <<"k", "o", "p", "i">>,
                   <<"s", "n", "a", "c", "k">>,
                   <<"j", "a", "j", "a", "n">> >>],
       [cat |-> <<"t", "r", "a", "n", "s", "p", "o", "r", "t", "a", "s", "i">>,
        kws |-> << <<"b", "e", "n", "s", "i", "n">>,
                   <<"p", "a", "r", "k", "i", "r">>,
                   <<"t", "o", "l">>,
                   <<"o", "j", "e", "k">>,
                   <<"g", "r", "a", "b">>,
                   <<"g", "o", "j", "e", "k">>,
                   <<"t", "a", "x", "i">>,
                   <<"b", "u", "s">>,
                   <<"k", "e", "r", "e", "t", "a">> >>],
       [cat |-> <<"b", "e", "l", "a", "n", "j", "a">>,
        kws |-> << <<"b", "e", "l", "a", "n", "j", "a">>,
                   <<"b", "e", "l", "i">>,
                   <<"s", "h", "o", "p", "p", "i", "n", "g">>,
                   <<"t", "o", "k", "o">>,
                   <<"m", "a", "r", "t">>,
                   <<"a", "l", "f", "a", "m", "a", "r", "t">>,
                   <<"i", "n", "d", "o", "m", "a", "r", "e", "t">> >>],
       [cat |-> <<"t", "a", "g", "i", "h", "a", "n">>,
        kws |-> << <<"t", "a", "g", "i", "h", "a", "n">>,
                   <<"l", "i", "s", "t", "r", "i", "k">>,
                   <<"a", "i", "r">>,
                   <<"p", "d", "a", "m">>,
                   <<"i", "n", "t", "e", "r", "n", "e", "t">>,
                   <<"w", "i", "f", "i">>,
                   <<"p", "u", "l", "s", "a">>,
                   <<"p", "a", "k", "e", "t", " ", "d", "a", "t", "a">> >>],
       [cat |-> <<"k", "e", "s", "e", "h", "a", "t", "a", "n">>,
        kws |-> << <<"o", "b", "a", "t">>,
                   <<"d", "o", "k", "t", "e", "r">>,
                   <<"r", "u", "m", "a", "h", " ", "s", "a", "k", "i", "t">>,
                   <<"k", "l", "i", "n", "i", "k">>,
                   <<"a", "p", "o", "t", "e", "k">>,
                   <<"v", "i", "t", "a", "m", "i", "n">> >>],
       [cat |-> <<"h", "i", "b", "u", "r", "a", "n">>,
        kws |-> << <<"f", "i", "l", "m">>,
                   <<"b", "i", "o", "s", "k", "o", "p">>,
                   <<"g", "a", "m", "e">>,
                   <<"s", "t", "r", "e", "a", "m", "i", "n", "g">>,
                   <<"n", "e", "t", "f", "l", "i", "x">>,
                   <<"s", "p", "o", "t", "i", "f", "y">> >>],
       [cat |-> <<"p", "e", "n", "d", "i", "d", "i", "k", "a", "n">>,
        kws |-> << <<"b", "u", "k", "u">>,
                   <<"k", "u", "r", "s", "u", "s">>,
                   <<"l", "e", "s">>,
                   <<"s", "e", "k", "o", "l", "a", "h">>,
                   <<"k", "u", "l", "i", "a", "h">>,
                   <<"s", "p", "p">> >>],
       [cat |-> <<"i", "u", "r", "a", "n">>,
        kws |-> << <<"i", "u", "r", "a", "n">>,
                   <<"a", "r", "i", "s", "a", "n">>,
                   <<"s", "u", "m", "b", "a", "n", "g", "a", "n">>,
                   <<"d", "o", "n", "a", "s", "i">>,
                   <<"z", "a", "k", "a", "t">>,
                   <<"i", "n", "f", "a", "q">> >>],
       [cat |-> <<"g", "a", "j", "i">>,
        kws |-> << <<"g", "a", "j", "i">>,
                   <<"s", "a", "l", "a", "r", "y">>,
                   <<"u", "p", "a", "h">> >>],
       [cat |-> <<"b", "o", "n", "u", "s">>,
        kws |-> << <<"b", "o", "n", "u", "s">>,
                   <<"t", "h", "r">>,
                   <<"i", "n", "s", "e", "n", "t", "i", "f">> >>] >>
\* any(kw in text for kw in kws)
AnyIn(kws, text) == \E i \in 1..Len(kws) : Contains(text, kws[i])

Income == <<"i", "n", "c", "o", "m", "e">>
Expense == <<"e", "x", "p", "e", "n", "s", "e">>

\* a rule that lets an income cue decide alone
LocalTypeIncomeFirst(text_lower) ==
    IF AnyIn(income_keywords, text_lower) THEN Income ELSE Expense

\* the income/expense rule: income only with an income cue and no expense cue
LocalType(text_lower) ==
    IF AnyIn(income_keywords, text_lower) /\ ~AnyIn(expense_keywords, text_lower)
    THEN Income
    ELSE Expense

UpperChar(c) ==
    IF \E i \in 1..Len(LowerChars) : LowerChars[i] = c
    THEN UpperChars[CHOOSE i \in 1..Len(LowerChars) : LowerChars[i] = c]
    ELSE c

\* str.capitalize()
Capitalize(s) ==
    [i \in 1..Len(s) |-> IF i = 1 THEN UpperChar(s[i]) ELSE LowerChar(s[i])]

Lainnya == <<"L", "a", "i", "n", "n", "y", "a">>

RECURSIVE CategoryFrom(_, _, _)
\* the loop over the entries of the map from entry i on
CategoryFrom(map, i, text_lower) ==
    IF i > Len(map) THEN Lainnya
    ELSE IF AnyIn(map[i].kws, text_lower) THEN Capitalize(map[i].cat)
    ELSE CategoryFrom(map, i + 1, text_lower)

\* the first category of category_map with a cue word in the text
LocalCategory(text_lower) == CategoryFrom(category_map, 1, text_lower)

Kemarin == <<"k", "e", "m", "a", "r", "i", "n">>
Yesterday == <<"y", "e", "s", "t", "e", "r", "d", "a", "y">>
Besok == <<"b", "e", "s", "o", "k">>
Tomorrow == <<"t", "o", "m", "o", "r", "r", "o", "w">>

\* the date rule of the local parser, as a day number
LocalDate(text_lower, today) ==
    IF Contains(text_lower, Kemarin) \/ Contains(text_lower, Yesterday) THEN today - 1
    ELSE IF Contains(text_lower, Besok) \/ Contains(text_lower, Tomorrow) THEN today + 1
    ELSE today

AmountSuffixes ==
    << <<"j", "u", "t", "a">>, <<"j", "t">>, <<"r", "i", "b", "u">>, <<"r", "b">>, <<"k">> >>

RECURSIVE SuffixEndFrom(_, _, _, _)
\* the end of the first alternative of sufs, from the k-th on, found at c
SuffixEndFrom(sufs, k, low, c) ==
    IF k > Len(sufs) THEN c
    ELSE IF HasAt(low, c, sufs[k]) THEN c + Len(sufs[k])
    ELSE SuffixEndFrom(sufs, k + 1, low, c)

\* the end of \d+(?:[.,]\d+)?\s*(?:juta|jt|ribu|rb|k)? matched at the digit at i
AmountPatternEnd(s, i) ==
    SuffixEndFrom(AmountSuffixes, 1, Lower(s), SpaceRunEnd(s, FracEnd(s, DigitRunEnd(s, i))))

RECURSIVE SubAmounts(_, _)
\* re.sub of the amount pattern by '' from position i on
SubAmounts(s, i) ==
    IF i > Len(s) THEN <<>>
    ELSE IF IsDigit(s[i]) THEN SubAmounts(s, AmountPatternEnd(s, i))
    ELSE <<s[i]>> \o SubAmounts(s, i + 1)

RECURSIVE SubRp(_, _)
\* re.sub(r'rp\.?\s*', '', ...) ignoring case, from position i on
SubRp(s, i) ==
    IF i > Len(s) THEN <<>>
    ELSE IF HasAt(Lower(s), i, <<"r", "p">>)
         THEN SubRp(s, SpaceRunEnd(s, IF HasAt(s, i + 2, <<".">>) THEN i + 3 ELSE i + 2))
         ELSE <<s[i]>> \o SubRp(s, i + 1)

\* the stripped text d, or the whole text when nothing is left
NonEmptyOr(d, text) == IF d = <<>> THEN text ELSE d

\* the description: the text without its amounts and currency marker
LocalDescription(text) ==
    IF Truthy(parse_indonesian_amount(text))
    THEN NonEmptyOr(Strip(SubRp(SubAmounts(text, 1), 1)), text)
    ELSE text

\* the sign rule: -abs for an expense, abs otherwise; None and 0 are left alone
LocalSign(amount, transaction_type) ==
    IF Truthy(amount) /\ transaction_type = Expense THEN PyNeg(PyAbs(amount))
    ELSE IF Truthy(amount) THEN PyAbs(amount)
    ELSE amount

\* a dict without the default category
LocalResultNoDefault(text, text_lower, amount, transaction_type, description, today) ==
    [amount |-> LocalSign(amount, transaction_type),
     description |-> Str(IF description # <<>> THEN Strip(description) ELSE text),
     transaction_type |-> Str(transaction_type),
     category |-> IF LocalCategory(text_lower) = Lainnya THEN PyNone
                  ELSE Str(LocalCategory(text_lower)),
     date |-> IsoDate(LocalDate(text_lower, today))]

\* the dict returned: description.strip() if description else text
LocalResult(text, text_lower, amount, transaction_type, description, today) ==
    [amount |-> LocalSign(amount, transaction_type),
     description |-> Str(IF description # <<>> THEN Strip(description) ELSE text),
     transaction_type |-> Str(transaction_type),
     category |-> Str(LocalCategory(text_lower)),
     date |-> IsoDate(LocalDate(text_lower, today))]

\* the dict parse_transaction_locally returns, read at day `today`
parse_transaction_locally(text, today) ==
    LocalResult(text, Lower(text), parse_indonesian_amount(text), LocalType(Lower(text)),
                LocalDescription(text), today)

-----------------------------------------------------------------------------
(* Python dicts: a function from its keys (strings) to values *)

Dict(d) == [t |-> "dict", d |-> d]
List(items) == [t |-> "list", items |-> items]
IsDict(v) == v.t = "dict"

\* d.get(k, default) on the function d
Get(d, k, default) == IF k \in DOMAIN d THEN d[k] ELSE default
\* d[k] = v
Put(d, k, v) == [x \in (DOMAIN d) \cup {k} |-> IF x = k THEN v ELSE d[x]]
\* d.pop(k, None)
Pop(d, k) == [x \in (DOMAIN d) \ {k} |-> d[x]]

RECURSIVE PopAll(_, _)
\* for key in keys: d.pop(key, None)
PopAll(d, keys) == IF keys = <<>> THEN d ELSE PopAll(Pop(d, Head(keys)), Tail(keys))

EmptyDict == [x \in {} |-> PyNone]

-----------------------------------------------------------------------------
(* The retry boundary: call_gemini_with_retry *)

\* the textual markers of a rate-limit error
RateLimitMarkers ==
    << <<"4", "2", "9">>, <<"q", "u", "o", "t", "a">>, <<"r", "a", "t", "e">>,
       <<"r", "e", "s", "o", "u", "r", "c", "e", "_", "e", "x", "h", "a", "u", "s", "t", "e", "d">>,
       <<"e", "x", "c", "e", "e", "d", "e", "d">> >>

\* is_rate_limit for the error text e
is_rate_limit(e) == AnyIn(RateLimitMarkers, Lower(e))

RECURSIVE Pow2(_)
Pow2(n) == IF n = 0 THEN 1 ELSE 2 * Pow2(n - 1)

\* the whole seconds of the delay slept after the failed attempt (the jitter
\* random.uniform(0, 1) adds less than one second)
RetryDelay(e, attempt, base_delay) ==
    IF is_rate_limit(e) THEN base_delay * Pow2(attempt) ELSE base_delay

RECURSIVE RetryFromKeepingFirst(_, _, _, _, _)
\* a loop that raises the error of the first invocation in the end
RetryFromKeepingFirst(outcomes, attempt, max_retries, base_delay, waits) ==
    LET o == outcomes[attempt + 1]
    IN  IF o.ok
        THEN [raised |-> FALSE, resp |-> o.resp, calls |-> attempt + 1, waits |-> waits]
        ELSE IF attempt < max_retries
        THEN RetryFromKeepingFirst(outcomes, attempt + 1, max_retries, base_delay,
                                   Append(waits, RetryDelay(o.err, attempt, base_delay)))
        ELSE [raised |-> TRUE, err |-> outcomes[1].err, calls |-> attempt + 1, waits |-> waits]

RECURSIVE RetryFrom(_, _, _, _, _)
\* the for loop from `attempt` on. outcomes[k] is what the k-th invocation of
\* generate_func does: [ok |-> TRUE, resp |-> ...] or [ok |-> FALSE, err |-> text].
RetryFrom(outcomes, attempt, max_retries, base_delay, waits) ==
    LET o == outcomes[attempt + 1]
    IN  IF o.ok
        THEN [raised |-> FALSE, resp |-> o.resp, calls |-> attempt + 1, waits |-> waits]
        ELSE IF attempt < max_retries
        THEN RetryFrom(outcomes, attempt + 1, max_retries, base_delay,
                       Append(waits, RetryDelay(o.err, attempt, base_delay)))
        ELSE [raised |-> TRUE, err |-> o.err, calls |-> attempt + 1, waits |-> waits]

call_gemini_with_retry(outcomes, max_retries, base_delay) ==
    RetryFrom(outcomes, 0, max_retries, base_delay, <<>>)

-----------------------------------------------------------------------------
(* AI Transaction Extractor: parse_financial_data *)

\* A response of the completion service: `text` says whether reading
\* response.text works, `fence` how the payload is wrapped ("none": bare,
\* "json": ```json ... ```, "bare": ``` ... ```, "tagged": ``` followed by
\* another language tag), `json` whether the payload is valid JSON and
\* `value` the value it denotes.

\* json.loads(json_str) succeeds on the string the fence rules cut out: a
\* fence with another tag leaves the tag in front of the payload
JsonLoads(resp) ==
    IF resp.json /\ resp.fence \in {"none", "json", "bare"}
    THEN [exc |-> "none", value |-> resp.value]
    ELSE [exc |-> "JSONDecodeError", value |-> PyNone]

\* float(v): a number, or a string that writes one
PyFloat(v) ==
    CASE v.t = "num" -> [exc |-> "none", value |-> v]
      [] v.t = "str" ->
            IF FloatOk(Strip(v.s))
            THEN [exc |-> "none", value |-> FloatTimes(Strip(v.s), 0)]
            ELSE [exc |-> "ValueError", value |-> PyNone]
      [] OTHER -> [exc |-> "TypeError", value |-> PyNone]

Lusa == <<"l", "u", "s", "a">>
DayAfterTomorrow ==
    <<"d", "a", "y", " ", "a", "f", "t", "e", "r", " ", "t", "o", "m", "o", "r", "r", "o", "w">>
HariYangLalu == <<"h", "a", "r", "i", " ", "y", "a", "n", "g", " ", "l", "a", "l", "u">>
DaysAgo == <<"d", "a", "y", "s", " ", "a", "g", "o">>
MingguLalu == <<"m", "i", "n", "g", "g", "u", " ", "l", "a", "l", "u">>
LastWeek == <<"l", "a", "s", "t", " ", "w", "e", "e", "k">>
Lalu == <<"l", "a", "l", "u">>
LastWord == <<"l", "a", "s", "t">>
Depan == <<"d", "e", "p", "a", "n">>
NextWord == <<"n", "e", "x", "t">>

\* day_names, in insertion order: the name and its weekday number
day_names ==
    << [name |-> <<"s", "e", "n", "i", "n">>, num |-> 0],
       [name |-> <<"m", "o", "n", "d", "a", "y">>, num |-> 0],
       [name |-> <<"s", "e", "l", "a", "s", "a">>, num |-> 1],
       [name |-> <<"t", "u", "e", "s", "d", "a", "y">>, num |-> 1],
       [name |-> <<"r", "a", "b", "u">>, num |-> 2],
       [name |-> <<"w", "e", "d", "n", "e", "s", "d", "a", "y">>, num |-> 2],
       [name |-> <<"k", "a", "m", "i", "s">>, num |-> 3],
       [name |-> <<"t", "h", "u", "r", "s", "d", "a", "y">>, num |-> 3],
       [name |-> <<"j", "u", "m", "a", "t">>, num |-> 4],
       [name |-> <<"f", "r", "i", "d", "a", "y">>, num |-> 4],
       [name |-> <<"s", "a", "b", "t", "u">>, num |-> 5],
       [name |-> <<"s", "a", "t", "u", "r", "d", "a", "y">>, num |-> 5],
       [name |-> <<"m", "i", "n", "g", "g", "u">>, num |-> 6],
       [name |-> <<"s", "u", "n", "d", "a", "y">>, num |-> 6] >>

\* int(re.search(r'(\d+)', ...).group(1)) days back, m the outcome of the
\* search; without a digit the bare except passes
DaysAgoDate(m, tc, today, date) ==
    IF m # NoMatch THEN IsoDate(today - DigitsValue(SubSeq(tc, m[1], m[2]))) ELSE date

\* the if/elif chain on the common time expressions: the date it sets, or
\* `date` when it sets none
CommonTimeDate(tc, today, date) ==
    IF Contains(tc, Kemarin) \/ Contains(tc, Yesterday) THEN IsoDate(today - 1)
    ELSE IF Contains(tc, Besok) \/ Contains(tc, Tomorrow) THEN IsoDate(today + 1)
    ELSE IF Contains(tc, Lusa) \/ Contains(tc, DayAfterTomorrow) THEN IsoDate(today + 2)
    ELSE IF Contains(tc, HariYangLalu) \/ Contains(tc, DaysAgo)
    THEN DaysAgoDate(Search(4, tc), tc, today, date)
    ELSE IF Contains(tc, MingguLalu) \/ Contains(tc, LastWeek) THEN IsoDate(today - 7)
    ELSE date

\* days back without the whole-week rule
DaysBackSameDay(back, tc) == back

\* days back to the last weekday day_num: a whole week when it is today's
\* and the context says lalu / last
DaysBack(back, tc) ==
    IF back = 0 /\ (Contains(tc, Lalu) \/ Contains(tc, LastWord)) THEN 7 ELSE back

\* days ahead without the whole-week rule
DaysAheadSameDay(fwd) == fwd

\* days ahead to the next weekday: a whole week when it is today's
DaysAhead(fwd) == IF fwd = 0 THEN 7 ELSE fwd

\* the date for the weekday day_num named in the time context
DayDate(day_num, tc, today) ==
    IF Contains(tc, Depan) \/ Contains(tc, NextWord)
    THEN IsoDate(today + DaysAhead((day_num - (today % 7)) % 7))
    ELSE IsoDate(today - DaysBack(((today % 7) - day_num) % 7, tc))

RECURSIVE DayNameFrom(_, _, _, _, _)
\* the loop over the names from the i-th on
DayNameFrom(names, i, tc, today, date) ==
    IF i > Len(names) THEN date
    ELSE IF Contains(tc, names[i].name) THEN DayDate(names[i].num, tc, today)
    ELSE DayNameFrom(names, i + 1, tc, today, date)

\* the loop over day_names: the first name found in the time context decides
DayNameDate(tc, today, date) == DayNameFrom(day_names, 1, tc, today, date)

\* an outer handler that catches the decoding error alone
CaughtJsonOnly(exc) == exc = "JSONDecodeError"

\* the exception classes `except Exception` catches: every class raised here
CaughtByOuterExcept(exc) ==
    exc \in {"ApiError", "TextError", "AttributeError", "ValueError", "TypeError",
             "JSONDecodeError"}

\* data['date'] = d, set when the chains changed it
WithDate(data, date0, resolved) ==
    IF resolved # date0 THEN Put(data, "date", resolved) ELSE data

\* the time-context resolution: only without a date and with a time context
ResolveTime(data, today) ==
    IF ~Truthy(Get(data, "date", PyNone)) /\ Truthy(Get(data, "time_context", PyNone))
    THEN WithDate(data, Get(data, "date", PyNone),
                  DayNameDate(Lower(Get(data, "time_context", PyNone).s), today,
                              CommonTimeDate(Lower(Get(data, "time_context", PyNone).s), today,
                                             Get(data, "date", PyNone))))
    ELSE data

\* if not data.get('date'): today
DefaultDate(data, today) ==
    IF ~Truthy(Get(data, "date", PyNone)) THEN Put(data, "date", IsoDate(today)) ELSE data

\* abs(float(amount)), negated for an expense
SignedAmount(amount, transaction_type) ==
    IF transaction_type = Str(Expense) THEN PyNeg(PyAbs(amount)) ELSE PyAbs(amount)

\* the local type, taken with the local amount whatever the response says
BorrowTypeAlways(data, local_result) ==
    Put(data, "transaction_type", local_result.transaction_type)

\* the local type, taken only when the response has none
BorrowType(data, local_result) ==
    IF ~Truthy(Get(data, "transaction_type", PyNone))
    THEN Put(data, "transaction_type", local_result.transaction_type)
    ELSE data

\* the amount block: the response's amount with the sign of its type, else
\* the local amount as it is
NormalizeAmount(data, local_result) ==
    IF ~IsNone(Get(data, "amount", PyNone))
    THEN Put(data, "amount", SignedAmount(PyFloat(Get(data, "amount", PyNone)).value,
                                          Get(data, "transaction_type", PyNone)))
    ELSE IF Truthy(local_result.amount)
    THEN BorrowType(Put(data, "amount", local_result.amount), local_result)
    ELSE data

\* if not data.get('description'): the local description
FillDescription(data, local_result) ==
    IF ~Truthy(Get(data, "description", PyNone))
    THEN Put(data, "description", local_result.description)
    ELSE data

\* the exception the inner try raises on the value json.loads returned
ProcessExc(value) ==
    IF ~IsDict(value) THEN "AttributeError"
    ELSE IF /\ ~Truthy(Get(value.d, "date", PyNone))
            /\ Truthy(Get(value.d, "time_context", PyNone))
            /\ ~IsStr(Get(value.d, "time_context", PyNone))
    THEN "AttributeError"
    ELSE IF ~IsNone(Get(value.d, "amount", PyNone))
    THEN PyFloat(Get(value.d, "amount", PyNone)).exc
    ELSE "none"

\* the body of the inner try once json.loads returned `value`: the dict
\* returned, or the exception raised on the way
ProcessData(value, local_result, today) ==
    IF ProcessExc(value) # "none" THEN [exc |-> ProcessExc(value), data |-> EmptyDict]
    ELSE [exc |-> "none",
          data |-> FillDescription(
                       Pop(NormalizeAmount(DefaultDate(ResolveTime(value.d, today), today),
                                           local_result),
                           "time_context"),
                       local_result)]

\* the attempt ceiling and base delay the text extractor passes
TextMaxRetries == 2
TextBaseDelay == 2

\* `return local_result` after an exception of class exc left the inner try,
\* when the outer except catches it
Fallback(local_result, calls, exc) ==
    IF CaughtByOuterExcept(exc)
    THEN [raised |-> FALSE, exc |-> "none", data |-> local_result, calls |-> calls,
          fallback |-> TRUE]
    ELSE [raised |-> TRUE, exc |-> exc, data |-> EmptyDict, calls |-> calls,
          fallback |-> FALSE]

\* after the inner try ran on the loaded value with outcome p
Processed(local_result, calls, p) ==
    IF p.exc = "none"
    THEN [raised |-> FALSE, exc |-> "none", data |-> p.data, calls |-> calls,
          fallback |-> FALSE]
    ELSE Fallback(local_result, calls, p.exc)

\* after json.loads: a JSONDecodeError is handled by the inner except and
\* falls through to `return local_result`
Loaded(local_result, calls, loaded, today) ==
    IF loaded.exc # "none"
    THEN [raised |-> FALSE, exc |-> "none", data |-> local_result, calls |-> calls,
          fallback |-> TRUE]
    ELSE Processed(local_result, calls, ProcessData(loaded.value, local_result, today))

\* after the retried call ended with r
Extracted(local_result, r, today) ==
    IF r.raised THEN Fallback(local_result, r.calls, "ApiError")
    ELSE IF ~r.resp.text THEN Fallback(local_result, r.calls, "TextError")
    ELSE Loaded(local_result, r.calls, JsonLoads(r.resp), today)

\* parse_financial_data(text) read at day `today`, the completion service
\* answering its invocations with `outcomes`: what is returned or raised
parse_financial_data(text, today, outcomes) ==
    Extracted(parse_transaction_locally(text, today),
              call_gemini_with_retry(outcomes, TextMaxRetries, TextBaseDelay), today)

-----------------------------------------------------------------------------
(* Multi-line Splitter *)

RECURSIVE SplitOn(_, _)
\* text.split(c) for a character c
SplitOn(s, c) ==
    IF \E i \in 1..Len(s) : s[i] = c
    THEN LET i == CHOOSE i \in 1..Len(s) : s[i] = c /\ \A k \in 1..(i - 1) : s[k] # c
         IN  <<SubSeq(s, 1, i - 1)>> \o SplitOn(SubSeq(s, i + 1, Len(s)), c)
    ELSE <<s>>

\* [line.strip() for line in text.split('\n') if line.strip()]
SplitLines(text) ==
    LET Strips(parts) == [i \in 1..Len(parts) |-> Strip(parts[i])]
    IN  SelectSeq(Strips(SplitOn(text, "\n")), LAMBDA l : l # <<>>)

RunDay == 10     \* the run happens on Thursday 2024-01-11

\* the texts users send
TextMakan == <<"m", "a", "k", "a", "n">>
TextZero == <<"0">>
TextBeli == <<"b", "e", "l", "i", " ", "5", "k">>
TextTwoLines == TextBeli \o <<"\n">> \o TextMakan
TextTwoMakan == TextMakan \o <<"\n">> \o TextMakan
TextDate == IsoText(RunDay)
Texts == {TextMakan, TextZero, TextBeli, TextTwoLines, TextTwoMakan, TextDate}

\* the lines of the texts users send, tabulated
LinesOf == [text \in Texts |-> SplitLines(text)]

\* the non-blank lines of a text: read from the table for a text users send
NonBlankLines(text) == IF text \in Texts THEN LinesOf[text] ELSE SplitLines(text)

RECURSIVE CollectUntilRaise(_, _, _)
\* a loop that a raising line ends
CollectUntilRaise(lines, i, rs) ==
    IF i > Len(lines) \/ rs[i].raised THEN <<>>
    ELSE IF ~IsNone(Get(rs[i].data, "amount", PyNone))
    THEN <<rs[i].data>> \o CollectUntilRaise(lines, i + 1, rs)
    ELSE CollectUntilRaise(lines, i + 1, rs)

RECURSIVE CollectTransactions(_, _, _)
\* the loop of parse_multiple_transactions from line i on; rs[i] is what
\* `await parse_financial_data(line)` gives for line i
CollectTransactions(lines, i, rs) ==
    IF i > Len(lines) THEN <<>>
    ELSE LET r == rs[i]
             rest == CollectTransactions(lines, i + 1, rs)
         IN  IF r.raised THEN rest
             ELSE IF ~IsNone(Get(r.data, "amount", PyNone)) THEN <<r.data>> \o rest
             ELSE rest

parse_multiple_transactions(text, rs) ==
    CollectTransactions(NonBlankLines(text), 1, rs)

-----------------------------------------------------------------------------
(* Conversation state machine: the handlers, as functions of the user's    *)
(* dict d.  Each gives the dict afterwards (ud), the reply sent (reply) and *)
(* the inline keyboard the reply carries (kb, "" for none).  The list       *)
(* messages_to_delete of message ids is housekeeping outside the model.     *)

STATE_WAITING_AMOUNT ==
    <<"w", "a", "i", "t", "i", "n", "g", "_", "a", "m", "o", "u", "n", "t">>

Users == {1}
\* AUTHORIZED_USER_IDS, as configured
AUTHORIZED_USER_IDS == Users
is_authorized(user_id) == user_id \in AUTHORIZED_USER_IDS

Outcome(ud, reply, kb) == [ud |-> ud, reply |-> reply, kb |-> kb]

\* str(v) of None or of a string
PyStr(v) ==
    CASE v.t = "none" -> Str(<<"N", "o", "n", "e">>)
      [] v.t = "str" -> v

\* parse_date_from_text: its relative-day rules (the texts of the model
\* write no calendar date)
parse_date_from_text(text, today) ==
    LET low == Lower(text)
    IN  IF Contains(low, Kemarin) \/ Contains(low, Yesterday) THEN IsoDate(today - 1)
        ELSE IF Contains(low, <<"h", "a", "r", "i", " ", "i", "n", "i">>)
                \/ Contains(low, <<"t", "o", "d", "a", "y">>) THEN IsoDate(today)
        ELSE IF Contains(low, Besok) \/ Contains(low, Tomorrow) THEN IsoDate(today + 1)
        ELSE IF Contains(low, Lusa) \/ Contains(low, DayAfterTomorrow) THEN IsoDate(today + 2)
        ELSE IsoDate(today)

\* the pending_transaction dict both branches of process_financial_message store
PendingTransaction(date, amount, category, description) ==
    Dict([date |-> date, amount |-> amount, category |-> category,
          description |-> description])

\* a WAITING_AMOUNT branch that gives up the amount question on a reply
\* without amount
AmountReplyResets(d, message_text, today) ==
    IF ~IsNone(parse_indonesian_amount(message_text))
    THEN Outcome(Put(Put(d, "conversation_state", PyNone), "pending_transaction",
                     PendingTransaction(Get(d, "date", IsoDate(today)),
                                        parse_indonesian_amount(message_text),
                                        Get(d, "pending_category", Str(Lainnya)),
                                        Get(d, "description", Str(<<>>)))),
                 "confirm_transaction", "confirm")
    ELSE Outcome(Pop(d, "conversation_state"), "invalid_amount", "")

\* the WAITING_AMOUNT branch of process_financial_message
AmountReply(d, message_text, today) ==
    LET amount == parse_indonesian_amount(message_text)
        transaction_type == Get(d, "transaction_type", Str(Expense))
        description == Get(d, "description", Str(<<>>))
        detected_date == Get(d, "date", IsoDate(today))
        category == Get(d, "pending_category", Str(Lainnya))
        signed == IF transaction_type = Str(Expense)
                  THEN PyNeg(PyAbs(amount)) ELSE PyAbs(amount)
    IN  IF ~IsNone(amount)
        THEN Outcome(Put(Put(d, "conversation_state", PyNone), "pending_transaction",
                         PendingTransaction(detected_date, signed, category, description)),
                     "confirm_transaction", "confirm")
        ELSE Outcome(d, "invalid_amount", "")

\* process_multiple_transactions: the batch as stored for confirmation
ProcessedTransactions(transactions, today) ==
    [i \in 1..Len(transactions) |->
        Dict([amount |-> PyFloat(Get(transactions[i], "amount", Num(0, 0))).value,
              category |-> PyStr(Get(transactions[i], "category", Str(Lainnya))),
              description |-> PyStr(Get(transactions[i], "description",
                                        Str(<<"T", "r", "a", "n", "s", "a", "k", "s", "i", " ",
                                              DigitChar(i)>>))),
              date |-> PyStr(Get(transactions[i], "date", IsoDate(today)))])]

process_multiple_transactions(d, transactions, today) ==
    Outcome(Put(d, "pending_multiple_transactions",
                List(ProcessedTransactions(transactions, today))),
            "confirm_batch", "confirm_all")

\* a single-line branch that stores a candidate whether or not the
\* extraction gave an amount
SingleTransactionAlwaysConfirms(d, message_text, today, r) ==
    Outcome(Put(Put(Put(d, "pending_message", Str(message_text)),
                    "detected_date", Get(r.data, "date", PyNone)),
                "pending_transaction",
                PendingTransaction(Get(r.data, "date", PyNone), Get(r.data, "amount", Num(0, 0)),
                                   Get(r.data, "category", Str(Lainnya)),
                                   Get(r.data, "description", Str(message_text)))),
            "confirm_transaction", "confirm")

\* the single-line branch of process_financial_message; r is what
\* `await parse_financial_data(message_text)` gives
SingleTransaction(d, message_text, today, r) ==
    LET parsed_data == IF ~Truthy(Get(r.data, "date", PyNone))
                       THEN Put(r.data, "date", parse_date_from_text(message_text, today))
                       ELSE r.data
        amount == Get(parsed_data, "amount", Num(0, 0))
        category == Get(parsed_data, "category", Str(Lainnya))
        description == Get(parsed_data, "description", Str(message_text))
        date == Get(parsed_data, "date", PyNone)
    IN  IF r.raised THEN Outcome(d, "exception", "")
        ELSE IF ~Truthy(Get(parsed_data, "amount", PyNone))
        THEN Outcome(Put(Put(Put(d, "pending_message", Str(message_text)),
                             "detected_date", Get(parsed_data, "date", PyNone)),
                         "pending_category", Get(parsed_data, "category", Str(Lainnya))),
                     "ask_type", "type")
        ELSE Outcome(Put(Put(Put(d, "pending_message", Str(message_text)),
                             "detected_date", date),
                         "pending_transaction",
                         PendingTransaction(date, amount, category, description)),
                     "confirm_transaction", "confirm")

process_financial_message(d, message_text, today, rs) ==
    IF Get(d, "conversation_state", PyNone) = Str(STATE_WAITING_AMOUNT)
    THEN AmountReply(d, message_text, today)
    ELSE IF Len(NonBlankLines(message_text)) > 1
    THEN LET transactions == parse_multiple_transactions(message_text, rs)
         IN  IF transactions = <<>> THEN Outcome(d, "no_transactions", "")
             ELSE process_multiple_transactions(d, transactions, today)
    ELSE SingleTransaction(d, message_text, today, rs[1])


\* the characters of the model in code-point order, for comparing strings
CharOrder ==
    <<"\t", "\n", " ", ",", "-", ".", "/", "0", "1", "2", "3", "4", "5", "6", "7", "8", "9", ":">>
    \o UpperChars \o <<"_">> \o LowerChars

Ord(c) == CHOOSE i \in 1..Len(CharOrder) : CharOrder[i] = c

RECURSIVE StrLess(_, _)
\* a < b on strings
StrLess(a, b) ==
    IF b = <<>> THEN FALSE
    ELSE IF a = <<>> THEN TRUE
    ELSE IF Head(a) = Head(b) THEN StrLess(Tail(a), Tail(b))
    ELSE Ord(Head(a)) < Ord(Head(b))

StrLeq(a, b) == a = b \/ StrLess(a, b)

\* re.match(r'^\d{4}-\d{2}-\d{2}$', s) on a stripped text
IsDateFormat(s) ==
    /\ Len(s) = 10
    /\ \A i \in {1, 2, 3, 4, 6, 7, 9, 10} : IsDigit(s[i])
    /\ s[5] = "-"
    /\ s[8] = "-"

\* a sheet row is the list row_data: date, amount, category, description,
\* user id, timestamp
RowDate(row) == row[1]
RowAmount(row) == row[2]
RowCategory(row) == row[3]
RowDescription(row) == row[4]
RowUser(row) == row[5]
RowTimestamp(row) == row[6]

\* datetime.now().strftime("%Y-%m-%d %H:%M:%S") at second k of the day's
\* minute 12:00
Timestamp(today, k) ==
    Str(IsoText(today) \o <<" ", "1", "2", ":", "0", "0", ":", "0", DigitChar(k)>>)

Batal == <<"b", "a", "t", "a", "l">>
CancelWord == <<"c", "a", "n", "c", "e", "l">>
Batalkan == <<"b", "a", "t", "a", "l", "k", "a", "n">>
AwaitingStartDate ==
    <<"a", "w", "a", "i", "t", "i", "n", "g", "_", "s", "t", "a", "r", "t", "_", "d", "a", "t", "e">>
AwaitingEndDate ==
    <<"a", "w", "a", "i", "t", "i", "n", "g", "_", "e", "n", "d", "_", "d", "a", "t", "e">>

\* handle_date_input: a text received during the delete-by-date dialogue;
\* store lists the calls made on the sheet, none where the field is absent
handle_date_input(d, text, user_id, rows, up) ==
    LET message_text == Strip(text)
        start_date == d["start_date"].s
        in_range == SelectSeq(rows, LAMBDA row :
                        /\ RowUser(row) = user_id
                        /\ StrLeq(start_date, RowDate(row).s)
                        /\ StrLeq(RowDate(row).s, message_text))
    IN  IF "delete_state" \notin DOMAIN d THEN Outcome(d, "", "")
        ELSE IF Lower(message_text) \in {Batal, CancelWord, Batalkan}
        THEN Outcome(PopAll(d, <<"delete_state", "start_date", "records_to_delete">>),
                     "delete_cancelled", "")
        ELSE IF ~IsDateFormat(message_text) THEN Outcome(d, "invalid_date", "")
        ELSE IF d["delete_state"] = Str(AwaitingStartDate)
        THEN Outcome(Put(Put(d, "start_date", Str(message_text)),
                         "delete_state", Str(AwaitingEndDate)),
                     "ask_end_date", "")
        ELSE IF d["delete_state"] = Str(AwaitingEndDate)
        THEN IF StrLess(message_text, start_date) THEN Outcome(d, "end_before_start", "")
             ELSE IF ~up
             THEN Outcome(PopAll(d, <<"delete_state", "start_date">>), "sheet_unavailable", "")
             ELSE IF in_range = <<>>
             THEN Outcome(PopAll(d, <<"delete_state", "start_date">>), "no_records", "")
                  @@ [store |-> <<"list">>]
             ELSE Outcome(Put(d, "records_to_delete", List(in_range)),
                          "confirm_delete", "confirm_delete_date")
                  @@ [store |-> <<"list">>]
        ELSE Outcome(d, "", "")

\* message_handler for an authorized user: a text update that is no command
\* (main registers it with ~filters.COMMAND); rs[i] is what the extraction of
\* the i-th text handed to parse_financial_data gives
message_handler(d, message_text, user_id, today, rs, rows, up) ==
    IF "delete_state" \in DOMAIN d
    THEN IF message_text # <<>> /\ Head(message_text) = "/"
         THEN Outcome(PopAll(d, <<"delete_state", "start_date", "records_to_delete">>), "", "")
         ELSE handle_date_input(d, message_text, user_id, rows, up)
    ELSE IF Len(NonBlankLines(message_text)) > 1
    THEN LET transactions == parse_multiple_transactions(message_text, rs)
         IN  IF transactions = <<>> THEN Outcome(d, "no_transactions", "")
             ELSE process_multiple_transactions(d, transactions, today)
    ELSE process_financial_message(d, message_text, today, rs)

\* the keys the confirm and cancel branches pop
ConfirmClearKeys ==
    <<"pending_transaction", "pending_message", "transaction_type", "amount",
      "description", "detected_date", "pending_receipt", "conversation_state",
      "pending_category", "date">>

\* the keys the edit branch pops when no pending_message is stored
EditClearKeys ==
    <<"pending_receipt", "transaction_type", "amount", "description", "detected_date",
      "conversation_state", "pending_category", "date">>

\* a type branch that stores the choice and leaves the conversation state
TypeChosenKeepsState(d, transaction_type, today) ==
    Outcome(Put(Put(Put(d, "transaction_type", Str(transaction_type)),
                    "description", Get(d, "pending_message", Str(<<>>))),
                "date", Get(d, "detected_date", IsoDate(today))),
            "ask_amount", "")

\* button_callback, data "type_income" / "type_expense"
TypeChosen(d, transaction_type, today) ==
    Outcome(Put(Put(Put(Put(d, "transaction_type", Str(transaction_type)),
                        "description", Get(d, "pending_message", Str(<<>>))),
                    "date", Get(d, "detected_date", IsoDate(today))),
                "conversation_state", Str(STATE_WAITING_AMOUNT)),
            "ask_amount", "")

\* a row_data that writes the magnitude of the amount
RowDataAbs(transaction, user_id, today, k) ==
    <<Get(transaction, "date", IsoDate(today)),
      PyAbs(Get(transaction, "amount", Num(0, 0))),
      Get(transaction, "category", Str(Lainnya)),
      Get(transaction, "description", Str(<<>>)),
      user_id,
      Timestamp(today, k)>>

\* row_data of the confirm branches
RowData(transaction, user_id, today, k) ==
    <<Get(transaction, "date", IsoDate(today)),
      Get(transaction, "amount", Num(0, 0)),
      Get(transaction, "category", Str(Lainnya)),
      Get(transaction, "description", Str(<<>>)),
      user_id,
      Timestamp(today, k)>>

\* button_callback, data "confirm_yes": the dict and the rows afterwards.
\* append_ok is whether sheet.append_row returns; when it raises, the
\* exception leaves the handler.  store lists the calls made on the sheet.
ConfirmYes(d, user_id, today, k, rows, up, append_ok) ==
    LET transaction == Get(d, "pending_transaction", Dict(EmptyDict)).d
    IN  IF ~up THEN [ud |-> d, rows |-> rows, reply |-> "sheet_unavailable", kb |-> "",
                     store |-> <<>>]
        ELSE IF ~append_ok THEN [ud |-> d, rows |-> rows, reply |-> "exception", kb |-> "",
                                 store |-> <<"append">>]
        ELSE [ud |-> PopAll(d, ConfirmClearKeys),
              rows |-> Append(rows, RowData(transaction, user_id, today, k)),
              reply |-> "saved", kb |-> "", store |-> <<"append", "list">>]

\* an edit branch that clears the context the way cancel does
ConfirmEditClearsAll(d) == Outcome(PopAll(d, ConfirmClearKeys), "resend", "")

\* button_callback, data "confirm_edit" or "confirm_no"
ConfirmEdit(d) ==
    LET d1 == PopAll(d, <<"pending_transaction", "conversation_state">>)
    IN  IF Truthy(Get(d1, "pending_message", PyNone))
        THEN Outcome(d1, "ask_type", "type")
        ELSE Outcome(PopAll(d1, EditClearKeys), "resend", "")

\* a cancel branch that drops the candidate and keeps the rest
ConfirmCancelKeepsText(d) ==
    Outcome(PopAll(d, <<"pending_transaction", "conversation_state">>), "cancelled", "")

\* button_callback, data "confirm_cancel"
ConfirmCancel(d) == Outcome(PopAll(d, ConfirmClearKeys), "cancelled", "")

RECURSIVE AppendBatchStopping(_, _, _, _, _, _)
\* a loop that the first failed append ends
AppendBatchStopping(transactions, i, user_id, today, ks, oks) ==
    IF i > Len(transactions) \/ ~oks[i] THEN <<>>
    ELSE <<RowData(transactions[i].d, user_id, today, ks[i])>>
         \o AppendBatchStopping(transactions, i + 1, user_id, today, ks, oks)

RECURSIVE AppendBatch(_, _, _, _, _, _)
\* the loop of multiple_transactions_callback from transaction i on: oks[i]
\* is whether the i-th append_row returns, ks[i] the second it is stamped
AppendBatch(transactions, i, user_id, today, ks, oks) ==
    IF i > Len(transactions) THEN <<>>
    ELSE (IF oks[i] THEN <<RowData(transactions[i].d, user_id, today, ks[i])>> ELSE <<>>)
         \o AppendBatch(transactions, i + 1, user_id, today, ks, oks)

\* multiple_transactions_callback, data "confirm_all_yes"
ConfirmAllYes(d, user_id, today, ks, rows, up, oks) ==
    LET transactions == Get(d, "pending_multiple_transactions", List(<<>>)).items
        added == AppendBatch(transactions, 1, user_id, today, ks, oks)
    IN  IF transactions = <<>>
        THEN [ud |-> d, rows |-> rows, reply |-> "nothing_to_save", kb |-> "", count |-> 0,
              store |-> <<>>]
        ELSE IF ~up
        THEN [ud |-> d, rows |-> rows, reply |-> "sheet_unavailable", kb |-> "", count |-> 0,
              store |-> <<>>]
        ELSE [ud |-> Pop(d, "pending_multiple_transactions"), rows |-> rows \o added,
              reply |-> "batch_saved", kb |-> "", count |-> Len(added),
              store |-> [i \in 1..Len(transactions) |-> "append"]]

\* multiple_transactions_callback, data "confirm_all_no"
ConfirmAllNo(d) == Outcome(Pop(d, "pending_multiple_transactions"), "batch_cancelled", "")

\* the first row of `user_id` stamped `timestamp`, 0 when there is none
FirstRow(rows, user_id, timestamp) ==
    LET hits == {i \in 1..Len(rows) :
                    RowUser(rows[i]) = user_id /\ RowTimestamp(rows[i]) = timestamp}
    IN  IF hits = {} THEN 0 ELSE CHOOSE i \in hits : \A j \in hits : i <= j

\* sheet.delete_rows on data row i: rows below move up, a row past the
\* data is blank
DeleteRow(rows, i) ==
    IF i \in 1..Len(rows) THEN SubSeq(rows, 1, i - 1) \o SubSeq(rows, i + 1, Len(rows))
    ELSE rows

RECURSIVE SortedDesc(_)
\* sorted(indices, reverse=True)
SortedDesc(indices) ==
    IF indices = <<>> THEN <<>>
    ELSE LET m == CHOOSE i \in 1..Len(indices) : \A j \in 1..Len(indices) : indices[i] >= indices[j]
         IN  <<indices[m]>>
             \o SortedDesc(SubSeq(indices, 1, m - 1) \o SubSeq(indices, m + 1, Len(indices)))

RECURSIVE DeleteRows(_, _)
\* for row_index in sorted(rows_to_delete, reverse=True): sheet.delete_rows(row_index)
DeleteRows(rows, indices) ==
    IF indices = <<>> THEN rows
    ELSE DeleteRows(DeleteRow(rows, Head(indices)), Tail(indices))

UserRows(rows, user_id) == SelectSeq(rows, LAMBDA row : RowUser(row) = user_id)

\* user_records[-5:] if len(user_records) >= 5 else user_records
RecentTransactions(user_records) ==
    IF Len(user_records) >= 5
    THEN SubSeq(user_records, Len(user_records) - 4, Len(user_records))
    ELSE user_records

\* delete_callback, data "delete_cancel", "delete_last", "delete_specific",
\* "delete_date", "delete_all"
DeleteCallback(d, action, user_id, rows, up) ==
    LET user_records == UserRows(rows, user_id)
        last_record == user_records[Len(user_records)]
        row_index == FirstRow(rows, user_id, RowTimestamp(last_record))
        same == [ud |-> d, rows |-> rows]
    IN  IF action = "cancel"
        THEN same @@ [reply |-> "delete_cancelled", kb |-> "", store |-> <<>>]
        ELSE IF ~up THEN same @@ [reply |-> "sheet_unavailable", kb |-> "", store |-> <<>>]
        ELSE CASE action = "last" ->
                    IF user_records = <<>>
                    THEN same @@ [reply |-> "nothing_to_delete", kb |-> "", store |-> <<"list">>]
                    ELSE [ud |-> d, rows |-> DeleteRow(rows, row_index),
                          reply |-> "last_deleted", kb |-> "",
                          store |-> <<"list", "list", "delete">>]
               [] action = "specific" ->
                    IF user_records = <<>>
                    THEN same @@ [reply |-> "nothing_to_delete", kb |-> "", store |-> <<"list">>]
                    ELSE [ud |-> Put(d, "recent_transactions",
                                     List(RecentTransactions(user_records))),
                          rows |-> rows, reply |-> "choose_transaction",
                          kb |-> "delete_specific", store |-> <<"list">>]
               [] action = "date" ->
                    [ud |-> Put(d, "delete_state", Str(AwaitingStartDate)), rows |-> rows,
                     reply |-> "ask_start_date", kb |-> "", store |-> <<>>]
               [] action = "all" ->
                    same @@ [reply |-> "confirm_delete_all", kb |-> "confirm_delete_all",
                             store |-> <<>>]

\* delete_specific_callback, data "del_specific_<index>"
DeleteSpecific(d, index, user_id, rows, up) ==
    LET recent == d["recent_transactions"].items
        row_index == FirstRow(rows, user_id, RowTimestamp(recent[index + 1]))
        same == [ud |-> d, rows |-> rows, kb |-> ""]
    IN  IF ~up THEN same @@ [reply |-> "sheet_unavailable", store |-> <<>>]
        ELSE IF "recent_transactions" \notin DOMAIN d \/ index >= Len(recent)
        THEN same @@ [reply |-> "error", store |-> <<>>]
        ELSE IF row_index # 0
        THEN [ud |-> d, rows |-> DeleteRow(rows, row_index), reply |-> "deleted", kb |-> "",
              store |-> <<"list", "delete">>]
        ELSE same @@ [reply |-> "not_found", store |-> <<"list">>]

\* the row indices confirm_delete_callback collects for records_to_delete
RowsToDelete(rows, user_id, records) ==
    LET found == [i \in 1..Len(records) |-> FirstRow(rows, user_id, RowTimestamp(records[i]))]
    IN  SelectSeq(found, LAMBDA i : i # 0)

\* a confirm_delete_callback that does not ask whether the sheet is there
ConfirmDeleteUnchecked(d, action, user_id, rows, up) ==
    IF action = "all"
    THEN [ud |-> d, rows |-> SelectSeq(rows, LAMBDA row : RowUser(row) # user_id),
          reply |-> "all_deleted", kb |-> "", store |-> <<"list">>]
    ELSE [ud |-> PopAll(d, <<"delete_state", "start_date", "records_to_delete">>),
          rows |-> rows, reply |-> "range_deleted", kb |-> "", store |-> <<"list">>]

\* the calls on the sheet that delete the rows `indices`
DeleteCalls(indices) == <<"list">> \o [i \in 1..Len(indices) |-> "delete"]

\* confirm_delete_callback, data "confirm_delete_all" and "confirm_delete_date"
ConfirmDelete(d, action, user_id, rows, up) ==
    IF ~up THEN [ud |-> d, rows |-> rows, reply |-> "sheet_unavailable", kb |-> "",
                 store |-> <<>>]
    ELSE IF action = "all"
    THEN [ud |-> d, rows |-> SelectSeq(rows, LAMBDA row : RowUser(row) # user_id),
          reply |-> "all_deleted", kb |-> "",
          store |-> DeleteCalls(UserRows(rows, user_id))]
    ELSE IF "records_to_delete" \notin DOMAIN d
    THEN [ud |-> d, rows |-> rows, reply |-> "error", kb |-> "", store |-> <<>>]
    ELSE [ud |-> PopAll(d, <<"delete_state", "start_date", "records_to_delete">>),
          rows |-> DeleteRows(rows, SortedDesc(RowsToDelete(rows, user_id,
                                                            d["records_to_delete"].items))),
          reply |-> "range_deleted", kb |-> "",
          store |-> DeleteCalls(RowsToDelete(rows, user_id, d["records_to_delete"].items))]

\* the command handlers main registers that reply without touching
\* user_data: start, catat (record_command), help, menu, sheet, hapus
Commands == {"start", "catat", "help", "menu", "sheet", "hapus"}
\* the commands the users of the model send
SentCommands == {"start", "catat", "hapus"}

CommandHandler(d, command) ==
    CASE command = "start" -> Outcome(d, "welcome", "")
      [] command = "catat" -> Outcome(d, "record_hint", "")
      [] command = "help" -> Outcome(d, "help", "")
      [] command = "menu" -> Outcome(d, "menu", "")
      [] command = "sheet" -> Outcome(d, "sheet_link", "")
      [] command = "hapus" -> Outcome(d, "delete_menu", "delete")


-----------------------------------------------------------------------------
(* The bot as a state machine: one action per update handled *)

MaxRows == 2     \* rows the sheet holds at most
MaxClock == 1    \* seconds the run lasts at most
MaxUpdates == 4  \* updates the bot handles at most

\* what the completion service does during one extraction: the outcome of
\* each of its invocations
AiError(e) == [ok |-> FALSE, err |-> e]
AiJson(value) == [ok |-> TRUE, resp |-> [text |-> TRUE, fence |-> "json", json |-> TRUE,
                                         value |-> value]]
AiFields(amount, transaction_type, category) ==
    Dict([amount |-> amount, category |-> category,
          description |-> Str(<<"a", "i">>), transaction_type |-> transaction_type,
          date |-> PyNone, time_context |-> PyNone])
Unavailable == <<"5", "0", "3", " ", "u", "n", "a", "v", "a", "i", "l", "a", "b", "l", "e">>
AiDown == [k \in 1..(TextMaxRetries + 1) |-> AiError(Unavailable)]
AiAnswers(value) == [k \in 1..(TextMaxRetries + 1) |-> AiJson(value)]
Makanan == <<"M", "a", "k", "a", "n", "a", "n">>
MachineAis == {AiDown, AiAnswers(AiFields(Num(7, 3), Str(Expense), PyNone))}

\* the texts message_handler hands to parse_financial_data: the non-blank
\* lines of a message of several lines, else the message
ExtractionInputs(text) ==
    IF Len(NonBlankLines(text)) > 1 THEN NonBlankLines(text) ELSE <<text>>

Lines == UNION {{ExtractionInputs(text)[i] : i \in 1..Len(ExtractionInputs(text))} : text \in Texts}

\* parse_financial_data on every line of the model, day RunDay, tabulated
Extraction ==
    [line \in Lines, ai \in MachineAis |-> parse_financial_data(line, RunDay, ai)]

\* what the extractions of the texts handed over by message_handler give,
\* the service behaving as ais[i] during the i-th
Extractions(text, ais) ==
    [i \in 1..Len(ExtractionInputs(text)) |-> Extraction[ExtractionInputs(text)[i], ais[i]]]

NoUpdate == [op |-> "none", user |-> 0, reply |-> ""]
NoCall == [fn |-> "none"]

Update(op, u, reply) == [op |-> op, user |-> u, reply |-> reply]

\* the inline keyboards of the model; keyboards[u][kb] counts the messages in
\* the chat of u that carry keyboard kb
KeyboardKinds ==
    {"type", "confirm", "confirm_all", "delete", "confirm_delete_all", "confirm_delete_date"}

\* reply_text with reply_markup kb ("" for none): one more message carries kb
Sent(shown, u, kb) == IF kb = "" THEN shown ELSE [shown EXCEPT ![u][kb] = @ + 1]

\* query.edit_message_text on the message whose button `tapped` was pressed:
\* it loses that keyboard and carries kb ("" for none) instead
Edited(u, tapped, kb) == Sent([keyboards EXCEPT ![u][tapped] = @ - 1], u, kb)

Show(u, kb) == Sent(keyboards, u, kb)

\* a context that is one dict for all users
StoredForAll(u, d) == [v \in DOMAIN user_data |-> d]

\* context.user_data of an update of user u is the dict kept for u: what
\* the handler leaves in it is stored for u alone
Stored(u, d) == [user_data EXCEPT ![u] = d]

Init ==
    /\ user_data = [u \in Users |-> EmptyDict]
    /\ sheet_rows = <<>>
    /\ sheet_up \in BOOLEAN
    /\ now_day = RunDay
    /\ clock = 0
    /\ keyboards = [u \in Users |-> [kb \in KeyboardKinds |-> 0]]
    /\ updates = 0
    /\ last = NoUpdate
    /\ call = NoCall

\* the bot has handled one more update, which left `unchanged` as it was
Handled(unchanged) ==
    /\ updates < MaxUpdates
    /\ updates' = updates + 1
    /\ UNCHANGED <<unchanged, sheet_up, now_day, call>>

\* a text message of user u reaches message_handler
TextMessage(u) ==
    /\ Handled(<<sheet_rows, clock>>)
    /\ \E text \in Texts :
         \E ais \in [1..Len(ExtractionInputs(text)) -> MachineAis] :
           LET o == message_handler(user_data[u], text, u, now_day, Extractions(text, ais),
                                    sheet_rows, sheet_up)
           IN  /\ user_data' = Stored(u, o.ud)
               /\ keyboards' = Show(u, o.kb)
               /\ last' = Update("message", u, o.reply)

\* user u sends one of the commands
Command(u) ==
    /\ Handled(<<sheet_rows, clock>>)
    /\ \E command \in SentCommands :
           LET o == CommandHandler(user_data[u], command)
           IN  /\ user_data' = Stored(u, o.ud)
               /\ keyboards' = Show(u, o.kb)
               /\ last' = Update(command, u, o.reply)

\* user u taps Pemasukan or Pengeluaran
ChooseType(u) ==
    /\ Handled(<<sheet_rows, clock>>)
    /\ keyboards[u]["type"] > 0
    /\ \E transaction_type \in {Income, Expense} :
        LET o == TypeChosen(user_data[u], transaction_type, now_day)
        IN  /\ user_data' = Stored(u, o.ud)
            /\ keyboards' = Edited(u, "type", o.kb)
            /\ last' = Update("type", u, o.reply)

\* user u taps the confirm button of a single transaction; when append_row
\* raises, the message keeps its keyboard
Confirm(u) ==
    /\ Handled(<<>>)
    /\ keyboards[u]["confirm"] > 0
    /\ Len(sheet_rows) < MaxRows
    /\ \E append_ok \in BOOLEAN, k \in clock..MaxClock :
        LET o == ConfirmYes(user_data[u], u, now_day, k, sheet_rows, sheet_up, append_ok)
        IN  /\ user_data' = Stored(u, o.ud)
            /\ sheet_rows' = o.rows
            /\ clock' = IF o.reply = "saved" THEN k ELSE clock
            /\ keyboards' = IF o.reply = "exception" THEN keyboards
                             ELSE Edited(u, "confirm", o.kb)
            /\ last' = Update("confirm_yes", u, o.reply)

\* user u taps the edit button
Edit(u) ==
    /\ Handled(<<sheet_rows, clock>>)
    /\ keyboards[u]["confirm"] > 0
    /\ LET o == ConfirmEdit(user_data[u])
       IN  /\ user_data' = Stored(u, o.ud)
           /\ keyboards' = Edited(u, "confirm", o.kb)
           /\ last' = Update("confirm_edit", u, o.reply)

\* user u taps the cancel button
Cancel(u) ==
    /\ Handled(<<sheet_rows, clock>>)
    /\ keyboards[u]["confirm"] > 0
    /\ LET o == ConfirmCancel(user_data[u])
       IN  /\ user_data' = Stored(u, o.ud)
           /\ keyboards' = Edited(u, "confirm", o.kb)
           /\ last' = Update("confirm_cancel", u, o.reply)

\* user u taps the confirm button of a batch
ConfirmAll(u) ==
    /\ Handled(<<>>)
    /\ LET n == Len(Get(user_data[u], "pending_multiple_transactions", List(<<>>)).items)
       IN  /\ keyboards[u]["confirm_all"] > 0
           /\ Len(sheet_rows) + n <= MaxRows
           /\ \E oks \in [1..n -> BOOLEAN], ks \in [1..n -> clock..MaxClock] :
               /\ \A i \in 1..n, j \in 1..n : i <= j => ks[i] <= ks[j]
               /\ LET o == ConfirmAllYes(user_data[u], u, now_day, ks, sheet_rows, sheet_up, oks)
                  IN  /\ user_data' = Stored(u, o.ud)
                      /\ sheet_rows' = o.rows
                      /\ clock' = IF o.reply = "batch_saved" /\ n > 0 THEN ks[n] ELSE clock
                      /\ keyboards' = Edited(u, "confirm_all", o.kb)
                      /\ last' = Update("confirm_all_yes", u, o.reply)

\* user u taps the cancel button of a batch
CancelAll(u) ==
    /\ Handled(<<sheet_rows, clock>>)
    /\ keyboards[u]["confirm_all"] > 0
    /\ LET o == ConfirmAllNo(user_data[u])
       IN  /\ user_data' = Stored(u, o.ud)
           /\ keyboards' = Edited(u, "confirm_all", o.kb)
           /\ last' = Update("confirm_all_no", u, o.reply)

\* user u taps a button of the delete menu, or the cancel button of a
\* delete confirmation
DeleteChoice(u) ==
    /\ Handled(<<clock>>)
    /\ \E action \in {"cancel", "last", "date", "all"},
          tapped \in {"delete", "confirm_delete_all", "confirm_delete_date"} :
           /\ keyboards[u][tapped] > 0
           /\ tapped # "delete" => action = "cancel"
           /\ LET o == DeleteCallback(user_data[u], action, u, sheet_rows, sheet_up)
              IN  /\ user_data' = Stored(u, o.ud)
                  /\ sheet_rows' = o.rows
                  /\ keyboards' = Edited(u, tapped, o.kb)
                  /\ last' = Update("delete_" \o action, u, o.reply)

\* user u taps the confirm button of a delete confirmation
ConfirmDeletion(u) ==
    /\ Handled(<<clock>>)
    /\ \E action \in {"all", "date"} :
           /\ keyboards[u]["confirm_delete_" \o action] > 0
           /\ LET o == ConfirmDelete(user_data[u], action, u, sheet_rows, sheet_up)
              IN  /\ user_data' = Stored(u, o.ud)
                  /\ sheet_rows' = o.rows
                  /\ keyboards' = Edited(u, "confirm_delete_" \o action, o.kb)
                  /\ last' = Update("confirm_delete_" \o action, u, o.reply)

\* the bot handles one more update
Next ==
    \E u \in Users :
        \/ TextMessage(u)
        \/ Command(u)
        \/ ChooseType(u)
        \/ Confirm(u)
        \/ Edit(u)
        \/ Cancel(u)
        \/ ConfirmAll(u)
        \/ CancelAll(u)
        \/ DeleteChoice(u)
        \/ ConfirmDeletion(u)

Spec == Init /\ [][Next]_vars

-----------------------------------------------------------------------------
(* The conversation states of the design, read off the user's dict *)

\* the conversation-context keys: pending candidate, raw text, chosen type,
\* detected date, detected category, conversation state
ContextKeys ==
    {"pending_transaction", "pending_message", "transaction_type", "detected_date",
     "pending_category", "conversation_state"}

\* the state the handlers treat the dict d as: the amount question is open
\* while conversation_state says so, a candidate awaits its answer while
\* pending_transaction is stored, the type question is open while only the
\* raw text is
StateOf(d) ==
    IF Get(d, "conversation_state", PyNone) = Str(STATE_WAITING_AMOUNT) THEN "WAITING_AMOUNT"
    ELSE IF "pending_transaction" \in DOMAIN d THEN "PENDING_CONFIRMATION"
    ELSE IF "pending_message" \in DOMAIN d THEN "WAITING_TYPE"
    ELSE "NONE"

\* no conversation-context key is left in d
Cleared(d) == ContextKeys \cap DOMAIN d = {}

\* key is stored in both dicts with one value, or in neither
SameAt(d1, d2, key) ==
    /\ key \in DOMAIN d1 <=> key \in DOMAIN d2
    /\ key \in DOMAIN d1 => d1[key] = d2[key]

-----------------------------------------------------------------------------
(* Properties of the conversation machine *)

\* C1: whenever the confirm button is handled for a user whose conversation
\* is in PENDING_CONFIRMATION, no conversation-context key is left in that
\* user's context afterwards.
C1_ConfirmClearsContext ==
    [][\A u \in Users :
          (/\ last'.op = "confirm_yes"
           /\ last'.user = u
           /\ StateOf(user_data[u]) = "PENDING_CONFIRMATION")
          => Cleared(user_data'[u])]_vars

\* C2: whenever a command is handled for a user whose conversation is in a
\* state other than NONE, every conversation-context key is cleared and the
\* user is in NONE afterwards.
C2_CommandAbortsFlow ==
    [][\A u \in Users :
          (/\ last'.op \in Commands
           /\ last'.user = u
           /\ StateOf(user_data[u]) # "NONE")
          => (Cleared(user_data'[u]) /\ StateOf(user_data'[u]) = "NONE")]_vars

\* C3: no row of the record store has the amount zero (every row of the
\* model is appended by the single confirm or by the batch confirm).
C3_NoZeroAmountRow ==
    \A i \in 1..Len(sheet_rows) : RowAmount(sheet_rows[i]).m # 0

\* C4: for a user in NONE with no delete dialogue open, a single-line text
\* whose extraction gives no amount is answered with the income/expense
\* choice; the raw text, the detected date and the detected category are
\* stored, no pending candidate is, and the user is in WAITING_TYPE.
C4_NoAmountAsksType ==
    \A u \in Users, text \in Texts, ai \in MachineAis :
        (/\ StateOf(user_data[u]) = "NONE"
         /\ "delete_state" \notin DOMAIN user_data[u]
         /\ Len(NonBlankLines(text)) <= 1
         /\ ~Extraction[text, ai].raised
         /\ IsNone(Get(Extraction[text, ai].data, "amount", PyNone)))
        => LET o == message_handler(user_data[u], text, u, now_day,
                                    <<Extraction[text, ai]>>, sheet_rows, sheet_up)
               data == Extraction[text, ai].data
           IN  /\ o.kb = "type"
               /\ o.reply = "ask_type"
               /\ Get(o.ud, "pending_message", PyNone) = Str(text)
               /\ Get(o.ud, "detected_date", PyNone)
                    = (IF Truthy(Get(data, "date", PyNone)) THEN data["date"]
                       ELSE parse_date_from_text(text, now_day))
               /\ Get(o.ud, "pending_category", PyNone) = Get(data, "category", Str(Lainnya))
               /\ "pending_transaction" \notin DOMAIN o.ud
               /\ StateOf(o.ud) = "WAITING_TYPE"

\* the first update was a text without amount, sent from NONE and answered
\* with the income/expense choice
C4_Witness ==
    /\ updates = 1
    /\ last.op = "message"
    /\ last.reply = "ask_type"
    /\ \E u \in Users :
        /\ last.user = u
        /\ Get(user_data[u], "pending_message", PyNone) = Str(TextMakan)
        /\ StateOf(user_data[u]) = "WAITING_TYPE"
        /\ keyboards[u]["type"] = 1

C6_CancelDiscards ==
    [][\A u \in Users :
          (/\ last'.op = "confirm_cancel"
           /\ last'.user = u
           /\ StateOf(user_data[u]) = "PENDING_CONFIRMATION")
          => (/\ sheet_rows' = sheet_rows
              /\ "pending_transaction" \notin DOMAIN user_data'[u]
              /\ Cleared(user_data'[u])
              /\ StateOf(user_data'[u]) = "NONE")]_vars

\* a text gave a candidate and the next update cancelled it
C6_Witness ==
    /\ updates = 2
    /\ last.op = "confirm_cancel"
    /\ last.reply = "cancelled"
    /\ sheet_rows = <<>>
    /\ \E u \in Users : last.user = u /\ Cleared(user_data[u]) /\ keyboards[u]["confirm"] = 0

\* C9: whenever a pending candidate is confirmed and saved, the store is
\* the store before with one more row, whose date, amount and category are
\* the candidate's and whose owner is the user; whenever a batch is saved,
\* every row added has the date, amount and category of a transaction of
\* the pending batch and the user as owner.
C9_RowEqualsCandidate ==
    [][\A u \in Users :
          /\ (/\ last'.op = "confirm_yes"
              /\ last'.user = u
              /\ last'.reply = "saved"
              /\ "pending_transaction" \in DOMAIN user_data[u])
             => (/\ Len(sheet_rows') = Len(sheet_rows) + 1
                 /\ SubSeq(sheet_rows', 1, Len(sheet_rows)) = sheet_rows
                 /\ LET row == sheet_rows'[Len(sheet_rows')]
                        candidate == user_data[u]["pending_transaction"].d
                    IN  /\ RowDate(row) = candidate["date"]
                        /\ RowAmount(row) = candidate["amount"]
                        /\ RowCategory(row) = candidate["category"]
                        /\ RowUser(row) = u)
          /\ (/\ last'.op = "confirm_all_yes"
              /\ last'.user = u
              /\ last'.reply = "batch_saved")
             => (/\ Len(sheet_rows') >= Len(sheet_rows)
                 /\ SubSeq(sheet_rows', 1, Len(sheet_rows)) = sheet_rows
                 /\ \A i \in (Len(sheet_rows) + 1)..Len(sheet_rows') :
                      \E t \in {user_data[u]["pending_multiple_transactions"].items[j] :
                                  j \in 1..Len(user_data[u]["pending_multiple_transactions"].items)} :
                          /\ RowDate(sheet_rows'[i]) = t.d["date"]
                          /\ RowAmount(sheet_rows'[i]) = t.d["amount"]
                          /\ RowCategory(sheet_rows'[i]) = t.d["category"]
                          /\ RowUser(sheet_rows'[i]) = u)]_vars

\* "beli 5k" gave the candidate of -5000 and the next update saved it
C9_Witness ==
    /\ updates = 2
    /\ last.op = "confirm_yes"
    /\ last.reply = "saved"
    /\ Len(sheet_rows) = 1
    /\ RowAmount(sheet_rows[1]) = Num(-5, 3)
    /\ RowUser(sheet_rows[1]) = last.user


-----------------------------------------------------------------------------
(* parse_indonesian_amount under test: the call is applied to each text *)

\* texts of at most MaxLen characters over AmountChars
MaxLen == 3
AmountChars == {"5", "0", ".", ",", "k", " ", "r", "b"}

RECURSIVE TextsUpTo(_)
TextsUpTo(n) ==
    IF n = 0 THEN {<<>>}
    ELSE TextsUpTo(n - 1)
         \cup {Append(t, c) : t \in {x \in TextsUpTo(n - 1) : Len(x) = n - 1}, c \in AmountChars}

\* grouped-thousands literals: a head of one to three digits and one or two
\* groups of three digits, each behind a '.' or a ','
GroupHeads == {<<"5">>, <<"5", "0">>, <<"1", "5", "0">>}
Groups == {<<"0", "0", "0">>, <<"5", "0", "0">>}
Separators == {".", ","}
OneGroup == {<<sep>> \o g : sep \in Separators, g \in Groups}
GroupedLiterals ==
    {h \o g : h \in GroupHeads, g \in OneGroup}
    \cup {h \o g1 \o g2 : h \in GroupHeads, g1 \in OneGroup, g2 \in OneGroup}

\* amounts with a magnitude suffix
SuffixNumbers == {<<"7", "0">>, <<"1", ".", "5">>, <<"2", ",", "5">>, <<"1", ".", "5", "0", "0">>}
SuffixWords ==
    {<<"k">>, <<"r", "b">>, <<"r", "i", "b", "u">>, <<"j", "t">>, <<"j", "u", "t", "a">>,
     <<"K">>, <<"J", "T">>}
SuffixedLiterals ==
    {n \o sp \o w : n \in SuffixNumbers, sp \in {<<>>, <<" ">>}, w \in SuffixWords}

AmountTexts == TextsUpTo(MaxLen) \cup GroupedLiterals \cup SuffixedLiterals

\* the variables of the conversation machine, at rest
MachineAtRest ==
    /\ user_data = [u \in Users |-> EmptyDict]
    /\ sheet_rows = <<>>
    /\ sheet_up = TRUE
    /\ clock = 0
    /\ keyboards = [u \in Users |-> [kb \in KeyboardKinds |-> 0]]
    /\ updates = 0
    /\ last = NoUpdate

MachineUnchanged ==
    UNCHANGED <<user_data, sheet_rows, sheet_up, now_day, clock, keyboards, updates, last>>

InitAmount ==
    /\ MachineAtRest
    /\ now_day = RunDay
    /\ call \in {[fn |-> "input", text |-> text] : text \in AmountTexts}

\* the call returns
ApplyAmount ==
    /\ call.fn = "input"
    /\ call' = [fn |-> "parse_indonesian_amount", text |-> call.text,
                result |-> parse_indonesian_amount(call.text)]
    /\ MachineUnchanged

SpecAmount == InitAmount /\ [][ApplyAmount]_vars

\* C10: for every grouped-thousands literal without magnitude suffix,
\* parse_indonesian_amount returns the integer written by its digits, the
\* group separators stripped.
C10_GroupedLiteralValue ==
    (call.fn = "parse_indonesian_amount" /\ call.text \in GroupedLiterals)
    => call.result = Num(DigitsValue(SelectSeq(call.text, LAMBDA c : c \notin Separators)), 0)

\* the number a numeral writes, its one '.' or ',' read as the decimal point
DecimalOf(n) ==
    LET marks == {i \in 1..Len(n) : n[i] \in Separators}
        frac == IF marks = {} THEN 0 ELSE Len(n) - (CHOOSE i \in marks : TRUE)
    IN  Num(DigitsValue(SelectSeq(n, LAMBDA c : c \notin Separators)), -frac)

\* x * 10^k
Scaled(x, k) == Num(x.m, x.e + k)

\* C11: for every number n, parse_indonesian_amount returns n*1000 for the
\* text <n>k, <n>rb or <n>ribu and n*1000000 for <n>jt or <n>juta, in either
\* letter case and with or without a space before the suffix; the suffix
\* patterns are tried before the grouped and the bare pattern, so the result
\* is never the number without its multiplier.
C11_SuffixMultiplies ==
    call.fn = "parse_indonesian_amount"
    => \A n \in SuffixNumbers, sp \in {<<>>, <<" ">>}, w \in SuffixWords :
          call.text = n \o sp \o w
          => /\ call.result = Scaled(DecimalOf(n), IF Lower(w)[1] = "j" THEN 6 ELSE 3)
             /\ call.result # DecimalOf(n)

\* "70k" was read as 70000
C11_Witness ==
    /\ call.fn = "parse_indonesian_amount"
    /\ call.text = <<"7", "0", "k">>
    /\ call.result = Num(70000, 0)

-----------------------------------------------------------------------------
(* parse_financial_data under test: the call is applied to each line, day   *)
(* and behaviour of the completion service                                  *)

StartDays == {7, 10}   \* a Monday and a Thursday

TextGaji == <<"g", "a", "j", "i", " ", "1", "j", "t">>
ExtractTexts == {TextMakan, TextZero, TextBeli, TextGaji}

Quota == <<"4", "2", "9", " ", "q", "u", "o", "t", "a">>
AiErrors == {AiError(Unavailable), AiError(Quota)}

\* the amounts, types and payload shapes the completion service answers with
AiAmounts == {PyNone, Num(0, 0), Num(7, 3), Num(-7, 3), Str(<<"1", "2">>), Str(<<"a", "b", "c">>)}
AiTypes == {PyNone, Str(Income), Str(Expense)}
AiValues ==
    {AiFields(amount, transaction_type, Str(Makanan)) :
        amount \in AiAmounts, transaction_type \in AiTypes}
    \cup {List(<<>>), PyNone, Num(5, 0)}

AiResponses ==
    {AiJson(value) : value \in AiValues}
    \cup {[ok |-> TRUE, resp |-> [text |-> FALSE, fence |-> "none", json |-> FALSE,
                                  value |-> PyNone]],
          [ok |-> TRUE, resp |-> [text |-> TRUE, fence |-> "none", json |-> FALSE,
                                  value |-> PyNone]],
          [ok |-> TRUE, resp |-> [text |-> TRUE, fence |-> "tagged", json |-> TRUE,
                                  value |-> AiFields(Num(7, 3), Str(Expense), Str(Makanan))]],
          [ok |-> TRUE, resp |-> [text |-> TRUE, fence |-> "bare", json |-> TRUE,
                                  value |-> AiFields(Num(7, 3), Str(Income), Str(Makanan))]]}

\* behaviours of the service over the attempts of one extraction: `failures`
\* attempts raise e, the later ones answer with x
ExtractAis ==
    {[k \in 1..(TextMaxRetries + 1) |-> IF k <= failures THEN e ELSE x] :
        failures \in 0..(TextMaxRetries + 1), e \in AiErrors, x \in AiResponses}

InitExtract ==
    /\ MachineAtRest
    /\ now_day \in StartDays
    /\ call \in {[fn |-> "input", text |-> text, outcomes |-> outcomes] :
                    text \in ExtractTexts, outcomes \in ExtractAis}

\* the call returns or raises
ApplyExtract ==
    /\ call.fn = "input"
    /\ call' = [fn |-> "parse_financial_data", text |-> call.text, outcomes |-> call.outcomes,
                local |-> parse_transaction_locally(call.text, now_day),
                result |-> parse_financial_data(call.text, now_day, call.outcomes)]
    /\ MachineUnchanged

SpecExtract == InitExtract /\ [][ApplyExtract]_vars

\* C7: parse_financial_data raises nothing, whatever the completion service
\* does; when the AI path fails (every attempt raises, or the first response
\* has no text, is no valid JSON, is no JSON object, or carries an amount
\* that is no number) it returns the result of the local fallback parser.
C7_ExtractionFallsBack ==
    call.fn = "parse_financial_data"
    => /\ ~call.result.raised
       /\ LET answered == {k \in 1..(TextMaxRetries + 1) : call.outcomes[k].ok}
              first == CHOOSE k \in answered : \A j \in answered : k <= j
              resp == call.outcomes[first].resp
              failed == \/ answered = {}
                        \/ ~resp.text
                        \/ ~resp.json
                        \/ resp.fence = "tagged"
                        \/ ~IsDict(resp.value)
                        \/ /\ ~IsNone(Get(resp.value.d, "amount", PyNone))
                           /\ PyFloat(Get(resp.value.d, "amount", PyNone)).exc # "none"
          IN  failed => call.result.data = call.local

\* every attempt of the service raised and the local result came back
C7_Witness ==
    /\ call.fn = "parse_financial_data"
    /\ \A k \in 1..(TextMaxRetries + 1) : ~call.outcomes[k].ok
    /\ ~call.result.raised
    /\ call.result.calls = TextMaxRetries + 1
    /\ call.result.data = call.local
    /\ call.text = TextBeli

\* C8: in every result of parse_financial_data with an amount, the amount
\* is negative exactly when the transaction_type is expense and positive
\* exactly when it is income.
C8_SignMatchesType ==
    (/\ call.fn = "parse_financial_data"
     /\ ~call.result.raised
     /\ ~IsNone(Get(call.result.data, "amount", PyNone)))
    => LET amount == Get(call.result.data, "amount", PyNone)
           transaction_type == Get(call.result.data, "transaction_type", PyNone)
       IN  /\ amount.m < 0 <=> transaction_type = Str(Expense)
           /\ amount.m > 0 <=> transaction_type = Str(Income)

-----------------------------------------------------------------------------
(* Category Summarizer: generate_category_summary.  The summary is modelled *)
(* by what its lines carry: per category the item lines, the remainder     *)
(* line and the subtotal, then the grand total.  Amounts are rendered by   *)
(* format_rupiah; item descriptions are carried as given.                  *)

RECURSIVE Pow10(_)
Pow10(n) == IF n = 0 THEN 1 ELSE 10 * Pow10(n - 1)

\* x + y and x < y on decimals
DecAdd(x, y) ==
    LET e == IF x.e < y.e THEN x.e ELSE y.e
    IN  Num(x.m * Pow10(x.e - e) + y.m * Pow10(y.e - e), e)
DecLess(x, y) ==
    LET e == IF x.e < y.e THEN x.e ELSE y.e
    IN  x.m * Pow10(x.e - e) < y.m * Pow10(y.e - e)

\* f"{amount:,.0f}": the integer nearest to a non-negative amount, a half
\* going to the even neighbour; the dots between groups of three digits are
\* left out
format_rupiah(amount) ==
    IF amount.e >= 0 THEN amount.m * Pow10(amount.e)
    ELSE LET d == Pow10(-amount.e)
             q == amount.m \div d
             r == amount.m % d
         IN  IF 2 * r > d \/ (2 * r = d /\ q % 2 = 1) THEN q + 1 ELSE q

\* an order that keeps the list as it is
Unsorted(keys) == [p \in 1..Len(keys) |-> p]

\* sorted(..., reverse=True) on the keys: the indices in the order of the
\* sorted list; equal keys keep their order
SortedReverse(keys) ==
    LET Before(i) == {j \in 1..Len(keys) : \/ DecLess(keys[i], keys[j])
                                            \/ (keys[j] = keys[i] /\ j < i)}
    IN  [p \in 1..Len(keys) |-> CHOOSE i \in 1..Len(keys) : Cardinality(Before(i)) = p - 1]

RECURSIVE GroupByCategory(_, _, _)
\* the grouping loop from transaction i on: category_totals and
\* category_items, in the order the categories were first seen
GroupByCategory(transactions, i, groups) ==
    IF i > Len(transactions) THEN groups
    ELSE LET category == Get(transactions[i], "category", Str(Lainnya))
             item == [description |-> Get(transactions[i], "description", Str(<<"I", "t", "e", "m">>)),
                      amount |-> PyAbs(Get(transactions[i], "amount", Num(0, 0)))]
             seen == {g \in 1..Len(groups) : groups[g].category = category}
         IN  IF seen = {}
             THEN GroupByCategory(transactions, i + 1,
                      Append(groups, [category |-> category,
                                      total |-> DecAdd(Num(0, 0), item.amount),
                                      items |-> <<item>>]))
             ELSE LET g == CHOOSE g \in seen : TRUE
                  IN  GroupByCategory(transactions, i + 1,
                          [groups EXCEPT ![g] = [category |-> category,
                                                 total |-> DecAdd(@.total, item.amount),
                                                 items |-> Append(@.items, item)]])

\* the items shown per category at most
MaxItemsShown == 10

\* the lines of one category: its item lines, the count of the remainder
\* line (0 when there is none) and its subtotal
CategoryLines(group) ==
    LET order == SortedReverse([k \in 1..Len(group.items) |-> group.items[k].amount])
        sorted_items == [k \in 1..Len(group.items) |-> group.items[order[k]]]
        shown == IF Len(sorted_items) > MaxItemsShown
                 THEN SubSeq(sorted_items, 1, MaxItemsShown) ELSE sorted_items
    IN  [category |-> group.category,
         items |-> [k \in 1..Len(shown) |->
                       [description |-> shown[k].description,
                        amount |-> format_rupiah(shown[k].amount)]],
         remaining |-> IF Len(group.items) > MaxItemsShown
                       THEN Len(group.items) - MaxItemsShown ELSE 0,
         subtotal |-> format_rupiah(group.total)]

RECURSIVE GrandTotal(_, _)
\* grand_total after the categories from i on were added to it
GrandTotal(sorted_categories, i) ==
    IF i > Len(sorted_categories) THEN Num(0, 0)
    ELSE DecAdd(sorted_categories[i].total, GrandTotal(sorted_categories, i + 1))

\* the summary of grouped transactions
Summary(groups) ==
    LET order == SortedReverse([k \in 1..Len(groups) |-> groups[k].total])
        sorted_categories == [k \in 1..Len(groups) |-> groups[order[k]]]
    IN  [rendered |-> TRUE,
         categories |-> [k \in 1..Len(groups) |-> CategoryLines(sorted_categories[k])],
         grand_total |-> format_rupiah(GrandTotal(sorted_categories, 1))]

\* generate_category_summary(transactions): "" for no transactions
generate_category_summary(transactions) ==
    IF transactions = <<>> THEN [rendered |-> FALSE, categories |-> <<>>, grand_total |-> 0]
    ELSE Summary(GroupByCategory(transactions, 1, <<>>))

-----------------------------------------------------------------------------
(* Receipt Extractor: analyze_receipt_image.  It returns a payload: the    *)
(* receipt record, an error payload (unreadable: the JSON could not be     *)
(* parsed; busy: the service is rate limited, with the manual-entry hint;  *)
(* failed: the generic failure with the error's text) or nothing (None).   *)

\* the attempt ceiling and base delay the receipt extractor passes
ReceiptMaxRetries == 3
ReceiptBaseDelay == 3

\* the markers of a rate-limit error in the except clause
BusyMarkers ==
    << <<"4", "2", "9">>, <<"q", "u", "o", "t", "a">>,
       <<"e", "x", "c", "e", "e", "d", "e", "d">> >>

\* `except Exception as e`: the payload for an error of text error_text
ReceiptFailure(error_text) ==
    IF AnyIn(BusyMarkers, Lower(error_text))
    THEN [kind |-> "error", error |-> "busy"]
    ELSE [kind |-> "error", error |-> "failed"]

\* what a step of the inner try gives: a value, or an exception with the
\* text of its message (a ValueError of float() quotes the string)
Gives(value) == [exc |-> "none", text |-> <<>>, value |-> value]
Raises(exc, text) == [exc |-> exc, text |-> text, value |-> PyNone]

\* total + sign * float(v)
FloatAdded(total, v, sign) ==
    IF PyFloat(v).exc = "none"
    THEN Gives(DecAdd(total, IF sign < 0 THEN PyNeg(PyFloat(v).value) ELSE PyFloat(v).value))
    ELSE Raises(PyFloat(v).exc, IF IsStr(v) THEN v.s ELSE <<>>)

RECURSIVE ItemsTotal(_, _, _)
\* sum(float(item.get('amount', 0)) for item in items), from item i on
ItemsTotal(items, i, total) ==
    IF i > Len(items) THEN Gives(total)
    ELSE IF ~IsDict(items[i]) THEN Raises("AttributeError", <<>>)
    ELSE LET added == FloatAdded(total, Get(items[i].d, "amount", Num(0, 0)), 1)
         IN  IF added.exc # "none" THEN added ELSE ItemsTotal(items, i + 1, added.value)

\* the total computed from the items, the tax and the discount
ReceiptTotal(receipt) ==
    LET items == Get(receipt, "items", PyNone)
        summed == IF items.t = "list" THEN ItemsTotal(items.items, 1, Num(0, 0))
                  ELSE Raises(IF IsNum(items) THEN "TypeError" ELSE "AttributeError", <<>>)
        taxed == IF summed.exc # "none" \/ ~Truthy(Get(receipt, "tax", PyNone)) THEN summed
                 ELSE FloatAdded(summed.value, Get(receipt, "tax", PyNone), 1)
    IN  IF taxed.exc # "none" \/ ~Truthy(Get(receipt, "discount", PyNone)) THEN taxed
        ELSE FloatAdded(taxed.value, Get(receipt, "discount", PyNone), -1)

\* the receipt with its total: computed when it has none and items exist
WithTotal(receipt) ==
    IF ~Truthy(Get(receipt, "total_amount", PyNone)) /\ Truthy(Get(receipt, "items", PyNone))
    THEN IF ReceiptTotal(receipt).exc # "none" THEN ReceiptTotal(receipt)
         ELSE Gives(Put(receipt, "total_amount", ReceiptTotal(receipt).value))
    ELSE Gives(receipt)

\* the receipt with a date: today's when it has none
WithReceiptDate(receipt, today) ==
    IF ~Truthy(Get(receipt, "receipt_date", PyNone))
    THEN Put(receipt, "receipt_date", IsoDate(today)) ELSE receipt

\* the body of the inner try once json.loads returned receipt_data: the
\* payload returned, nothing when receipt_data is falsy
ProcessReceipt(receipt_data, today) ==
    IF ~Truthy(receipt_data) THEN [kind |-> "none"]
    ELSE IF ~IsDict(receipt_data) THEN ReceiptFailure(<<>>)
    ELSE LET done == WithTotal(WithReceiptDate(receipt_data.d, today))
         IN  IF done.exc # "none" THEN ReceiptFailure(done.text)
             ELSE [kind |-> "record", data |-> done.value]

\* after the retried call ended with r
Analyzed(r, today) ==
    IF r.raised THEN ReceiptFailure(r.err)
    ELSE IF ~r.resp.text THEN ReceiptFailure(<<>>)
    ELSE IF JsonLoads(r.resp).exc # "none" THEN [kind |-> "error", error |-> "unreadable"]
    ELSE ProcessReceipt(JsonLoads(r.resp).value, today)

\* analyze_receipt_image(image_file) run at day `today`, the completion
\* service answering its invocations with `outcomes`
analyze_receipt_image(today, outcomes) ==
    Analyzed(call_gemini_with_retry(outcomes, ReceiptMaxRetries, ReceiptBaseDelay), today)

-----------------------------------------------------------------------------
(* parse_multiple_transactions under test: the call is applied to texts of *)
(* up to MaxParts lines, each extraction returning or raising              *)

MaxParts == 3
BlankParts == {<<>>, <<" ">>}
SplitParts == {TextBeli, TextMakan, TextZero} \cup BlankParts
PartLists == UNION {[1..n -> SplitParts] : n \in 1..MaxParts}

RECURSIVE JoinLines(_)
\* '\n'.join(parts)
JoinLines(parts) ==
    IF Len(parts) = 1 THEN parts[1]
    ELSE parts[1] \o <<"\n">> \o JoinLines(SubSeq(parts, 2, Len(parts)))

\* `await parse_financial_data(line)` raises
LineRaises ==
    [raised |-> TRUE, exc |-> "Exception", data |-> EmptyDict, calls |-> 0, fallback |-> FALSE]

\* what the extraction of a line can do: return under each behaviour of the
\* completion service, or raise
LineOutcomes(line) == {Extraction[line, ai] : ai \in MachineAis} \cup {LineRaises}

\* the outcomes of the extractions of a list of lines
OutcomeLists(lines) ==
    {rs \in [1..Len(lines) -> UNION {LineOutcomes(line) : line \in SplitParts \ BlankParts}] :
        \A i \in 1..Len(lines) : rs[i] \in LineOutcomes(lines[i])}

InitSplit ==
    /\ MachineAtRest
    /\ now_day = RunDay
    /\ \E parts \in PartLists :
          \E rs \in OutcomeLists(SelectSeq(parts, LAMBDA p : p \notin BlankParts)) :
             call = [fn |-> "input", parts |-> parts, text |-> JoinLines(parts), rs |-> rs]

\* the call returns
ApplySplit ==
    /\ call.fn = "input"
    /\ call' = [fn |-> "parse_multiple_transactions", parts |-> call.parts, text |-> call.text,
                rs |-> call.rs, result |-> parse_multiple_transactions(call.text, call.rs)]
    /\ MachineUnchanged

SpecSplit == InitSplit /\ [][ApplySplit]_vars

\* C12: for every text, parse_multiple_transactions returns a list no longer
\* than the number of non-blank lines, holding exactly the extraction results
\* of the lines whose amount is not None, in line order; a line whose
\* extraction raises is skipped and the lines after it are still processed.
C12_SplitterKeepsAmountLines ==
    call.fn = "parse_multiple_transactions"
    => LET written == SelectSeq(call.parts, LAMBDA p : p \notin BlankParts)
           Kept(i) == /\ ~call.rs[i].raised
                      /\ ~IsNone(Get(call.rs[i].data, "amount", PyNone))
           kept == SelectSeq([i \in 1..Len(written) |-> i], Kept)
       IN  /\ Len(call.result) <= Len(written)
           /\ Len(call.result) = Len(kept)
           /\ \A k \in 1..Len(kept) : call.result[k] = call.rs[kept[k]].data

\* the second of three lines raised, the first had no amount, the third was kept
C12_Witness ==
    /\ call.fn = "parse_multiple_transactions"
    /\ call.parts = <<TextMakan, TextBeli, TextBeli>>
    /\ call.rs[2].raised
    /\ ~call.rs[1].raised /\ IsNone(Get(call.rs[1].data, "amount", PyNone))
    /\ ~call.rs[3].raised
    /\ call.result = <<call.rs[3].data>>

-----------------------------------------------------------------------------
(* generate_category_summary under test: the call is applied to every list *)
(* of up to MaxSummaryLen transactions and to lists that fill a category   *)
(* beyond the items shown                                                  *)

MaxSummaryLen == 3
Gaji == <<"G", "a", "j", "i">>
SummaryCategories == {Str(Makanan), Str(Gaji), Str(Lainnya)}
SummaryAmounts == {Num(-5, 3), Num(7, 3), Num(1, 6), Num(25, -1)}
SummaryItem(category, amount) ==
    [category |-> category, amount |-> amount, description |-> Str(<<"x">>)]
SummaryItems == {SummaryItem(c, a) : c \in SummaryCategories, a \in SummaryAmounts}

\* n expenses of one category, their amounts in no order and with repeats
LongList(n, step) ==
    [i \in 1..n |-> SummaryItem(Str(Makanan), Num(-(((i * step) % 7) + 1), 3))]
LongLists ==
    {LongList(n, step) : n \in MaxItemsShown..(MaxItemsShown + 2), step \in {1, 3}}

SummaryInputs ==
    UNION {[1..n -> SummaryItems] : n \in 0..MaxSummaryLen}
    \cup LongLists
    \cup {Append(l, i) : l \in LongLists, i \in SummaryItems}

InitSummary ==
    /\ MachineAtRest
    /\ now_day = RunDay
    /\ call \in {[fn |-> "input", transactions |-> ts] : ts \in SummaryInputs}

\* the call returns
ApplySummary ==
    /\ call.fn = "input"
    /\ call' = [fn |-> "generate_category_summary", transactions |-> call.transactions,
                result |-> generate_category_summary(call.transactions)]
    /\ MachineUnchanged

SpecSummary == InitSummary /\ [][ApplySummary]_vars

RECURSIVE AmountSum(_, _)
\* the sum of the amounts of the transactions from i on
AmountSum(transactions, i) ==
    IF i > Len(transactions) THEN Num(0, 0)
    ELSE DecAdd(transactions[i].amount, AmountSum(transactions, i + 1))

\* C13: for every non-empty list of transactions, the grand total that
\* generate_category_summary displays equals the sum of the amounts of all
\* input items, shown as format_rupiah shows it and without its sign.
C13_GrandTotalIsSum ==
    (call.fn = "generate_category_summary" /\ call.transactions # <<>>)
    => call.result.grand_total = format_rupiah(PyAbs(AmountSum(call.transactions, 1)))

\* C14: generate_category_summary renders the categories in non-increasing
\* order of subtotal and the items of a category in non-increasing order of
\* amount; a category shows at most 10 items, all of them when it has no
\* more, and has a remainder line exactly when it has more, whose count is
\* the number of its items minus 10.
C14_SummaryOrder ==
    call.fn = "generate_category_summary"
    => LET cs == call.result.categories
           Count(category) ==
               Cardinality({i \in 1..Len(call.transactions) :
                               call.transactions[i].category = category})
       IN  /\ \A k \in 1..(Len(cs) - 1) : cs[k].subtotal >= cs[k + 1].subtotal
           /\ \A k \in 1..Len(cs) :
                 /\ \A j \in 1..(Len(cs[k].items) - 1) :
                       cs[k].items[j].amount >= cs[k].items[j + 1].amount
                 /\ Len(cs[k].items) <= 10
                 /\ Count(cs[k].category) <= 10 => /\ Len(cs[k].items) = Count(cs[k].category)
                                                   /\ cs[k].remaining = 0
                 /\ Count(cs[k].category) > 10 => /\ Len(cs[k].items) = 10
                                                  /\ cs[k].remaining = Count(cs[k].category) - 10

\* twelve expenses of one category and an income were summarised: the larger
\* category first, ten items shown in order, a remainder line of two
C14_Witness ==
    /\ call.fn = "generate_category_summary"
    /\ call.transactions = Append(LongList(12, 3), SummaryItem(Str(Gaji), Num(1, 6)))
    /\ Len(call.result.categories) = 2
    /\ call.result.categories[1].category = Str(Gaji)
    /\ call.result.categories[2].remaining = 2
    /\ call.result.categories[2].items[1].amount = 7000
    /\ call.result.categories[2].items[10].amount = 2000

-----------------------------------------------------------------------------
(* the weekday resolution of parse_financial_data under test: the          *)
(* completion service answers with a time context naming a weekday, on     *)
(* every weekday of a week                                                 *)

WeekDays == 7..13    \* Monday 2024-01-08 to Sunday 2024-01-14

\* the time contexts for the i-th name of day_names: with the qualifier
\* lalu / last, in either letter case, with depan / next, and bare
LastContext(i) ==
    IF i % 2 = 1 THEN day_names[i].name \o <<" ">> \o Lalu
    ELSE LastWord \o <<" ">> \o day_names[i].name
NextContext(i) ==
    IF i % 2 = 1 THEN day_names[i].name \o <<" ">> \o Depan
    ELSE NextWord \o <<" ">> \o day_names[i].name
WeekdayContexts ==
    UNION {{[tc |-> LastContext(i), day_num |-> day_names[i].num, qualifier |-> "last"],
            [tc |-> Capitalize(LastContext(i)), day_num |-> day_names[i].num,
             qualifier |-> "last"],
            [tc |-> NextContext(i), day_num |-> day_names[i].num, qualifier |-> "next"],
            [tc |-> day_names[i].name, day_num |-> day_names[i].num, qualifier |-> "none"]} :
           i \in 1..Len(day_names)}

\* the time context last week, which holds no name of day_names (7 is no
\* weekday number)
WeekContexts == {[tc |-> LastWeek, day_num |-> 7, qualifier |-> "week"]}

\* the answer of the completion service: an expense of 7000 with the time
\* context, and the date it resolved or none
WeekdayAnswer(tc, date) ==
    Dict([AiFields(Num(7, 3), Str(Expense), Str(Makanan)).d
             EXCEPT !["time_context"] = Str(tc), !["date"] = date])

InitWeekday ==
    /\ MachineAtRest
    /\ now_day \in WeekDays
    /\ call \in {[fn |-> "input", text |-> TextBeli, day_num |-> c.day_num,
                  qualifier |-> c.qualifier, time_context |-> c.tc, date |-> date,
                  outcomes |-> AiAnswers(WeekdayAnswer(c.tc, date))] :
                    c \in WeekdayContexts \cup WeekContexts,
                    date \in {PyNone, Str(<<>>), IsoDate(0)}}

\* the call returns or raises
ApplyWeekday ==
    /\ call.fn = "input"
    /\ call' = [call EXCEPT !.fn = "parse_financial_data"]
               @@ [result |-> parse_financial_data(call.text, now_day, call.outcomes)]
    /\ MachineUnchanged

SpecWeekday == InitWeekday /\ [][ApplyWeekday]_vars

\* C15: for every weekday T of today and every named weekday W, a time
\* context naming W with the qualifier lalu or last, the response carrying no
\* date, resolves to the date k days before today, k = (T - W) mod 7 and 7
\* when that is 0: Senin lalu on a Monday is the Monday a week earlier.
C15_LastWeekdayResolves ==
    (/\ call.fn = "parse_financial_data"
     /\ call.qualifier = "last"
     /\ ~Truthy(call.date))
    => LET k == ((now_day % 7) - call.day_num) % 7
       IN  /\ ~call.result.raised
           /\ Get(call.result.data, "date", PyNone)
                 = IsoDate(now_day - (IF k = 0 THEN 7 ELSE k))
           /\ Get(call.result.data, "date", PyNone) # IsoDate(now_day)

\* Senin lalu, read on Monday 2024-01-08, gave Monday 2024-01-01
C15_Witness ==
    /\ call.fn = "parse_financial_data"
    /\ now_day = 7
    /\ call.time_context = Capitalize(LastContext(1))
    /\ call.date = PyNone
    /\ Get(call.result.data, "date", PyNone) = Str(<<"2", "0", "2", "4", "-", "0", "1", "-", "0", "1">>)

-----------------------------------------------------------------------------
(* analyze_receipt_image under test: the call is applied to each behaviour *)
(* of the completion service                                               *)

RateLimited == <<"r", "a", "t", "e", " ", "l", "i", "m", "i", "t", " ", "r", "e", "a", "c", "h", "e", "d">>
Exhausted ==
    <<"R", "E", "S", "O", "U", "R", "C", "E", "_", "E", "X", "H", "A", "U", "S", "T", "E", "D">>
Exceeded ==
    <<"d", "e", "a", "d", "l", "i", "n", "e", " ", "e", "x", "c", "e", "e", "d", "e", "d">>
ReceiptErrors == {Quota, Unavailable, RateLimited, Exhausted, Exceeded}

\* the receipts the completion service reads off an image
ReceiptItem(amount) == Dict([description |-> Str(<<"x">>), amount |-> amount])
ReceiptItemLists ==
    {PyNone, List(<<>>),
     List(<<ReceiptItem(Num(5, 3))>>),
     List(<<ReceiptItem(Num(5, 3)), ReceiptItem(Num(25, 2))>>),
     List(<<ReceiptItem(Str(<<"5", "0", "0", "0">>))>>),
     List(<<Dict([description |-> Str(<<"x">>)]), ReceiptItem(Num(5, 3))>>),
     List(<<ReceiptItem(Num(5, 3)), ReceiptItem(PyNone)>>)}
ReceiptTotals == {PyNone, Num(0, 0), Num(15, 3), Str(<<"1", "5", "0", "0", "0">>)}
ReceiptTaxes == {PyNone, Num(1, 3)}
ReceiptDiscounts == {PyNone, Num(5, 2), Str(<<"1", "0", "%">>)}
Receipts ==
    {Dict([total_amount |-> total, items |-> items, tax |-> tax, discount |-> discount,
           receipt_date |-> date]) :
        total \in ReceiptTotals, items \in ReceiptItemLists, tax \in ReceiptTaxes,
        discount \in ReceiptDiscounts, date \in {PyNone, IsoDate(0)}}
    \cup {Dict([store_name |-> Str(<<"x">>)]),
          Dict([store_name |-> Str(<<"x">>), items |-> List(<<ReceiptItem(Num(5, 3))>>)])}

\* the JSON values that are no receipt
OtherValues ==
    {PyNone, Dict(EmptyDict), List(<<>>), Num(0, 0), Str(<<>>), Num(5, 0), List(<<Num(5, 0)>>)}

ReceiptResponses ==
    {AiJson(value) : value \in Receipts \cup OtherValues}
    \cup {[ok |-> TRUE, resp |-> [text |-> text, fence |-> fence, json |-> json,
                                  value |-> Dict([store_name |-> Str(<<"x">>)])]] :
             text \in BOOLEAN, fence \in {"none", "bare", "tagged"}, json \in BOOLEAN}

\* behaviours of the service over the attempts of one analysis: `failures`
\* attempts raise e, the later ones answer with x
ReceiptAis ==
    {[k \in 1..(ReceiptMaxRetries + 1) |-> IF k <= failures THEN AiError(e) ELSE x] :
        failures \in 0..(ReceiptMaxRetries + 1), e \in ReceiptErrors, x \in ReceiptResponses}

InitReceipt ==
    /\ MachineAtRest
    /\ now_day = RunDay
    /\ call \in {[fn |-> "input", outcomes |-> outcomes] : outcomes \in ReceiptAis}

\* the call returns
ApplyReceipt ==
    /\ call.fn = "input"
    /\ call' = [fn |-> "analyze_receipt_image", outcomes |-> call.outcomes,
                result |-> analyze_receipt_image(now_day, call.outcomes)]
    /\ MachineUnchanged

SpecReceipt == InitReceipt /\ [][ApplyReceipt]_vars

\* the attempts that were answered, and the value of the first answer
Answered(outcomes) == {k \in 1..(ReceiptMaxRetries + 1) : outcomes[k].ok}
FirstAnswer(outcomes) ==
    outcomes[CHOOSE k \in Answered(outcomes) : \A j \in Answered(outcomes) : k <= j].resp

\* C16: whenever every attempt of the receipt extractor fails with an error
\* whose text call_gemini_with_retry classifies as a rate limit,
\* analyze_receipt_image returns the service-busy payload, not the generic
\* failure payload.
C16_RateLimitIsBusy ==
    (/\ call.fn = "analyze_receipt_image"
     /\ Answered(call.outcomes) = {}
     /\ is_rate_limit(call.outcomes[ReceiptMaxRetries + 1].err))
    => call.result = [kind |-> "error", error |-> "busy"]

\* C17: for every response text of the completion service (a JSON object
\* with fields, an empty or null JSON value, text that is no JSON),
\* analyze_receipt_image returns an extraction record or an error payload
\* carrying a message; it never returns no value.
C17_ReceiptAlwaysPayload ==
    (/\ call.fn = "analyze_receipt_image"
     /\ Answered(call.outcomes) # {}
     /\ FirstAnswer(call.outcomes).text)
    => call.result.kind \in {"record", "error"}

\* the sum of the amounts of a list of items, an item without amount
\* counting 0
RECURSIVE ItemAmounts(_, _)
ItemAmounts(items, i) ==
    IF i > Len(items) THEN Num(0, 0)
    ELSE LET amount == Get(items[i].d, "amount", PyNone)
         IN  DecAdd(CASE IsNum(amount) -> amount
                      [] IsStr(amount) -> Num(DigitsValue(amount.s), 0)
                      [] OTHER -> Num(0, 0),
                    ItemAmounts(items, i + 1))

\* C18: when the parsed receipt has no total_amount but at least one item,
\* the returned total_amount is the sum of the item amounts plus the tax
\* (when present) minus the discount (when present); a total_amount the
\* receipt carries is returned unchanged.
C18_TotalDerived ==
    (/\ call.fn = "analyze_receipt_image"
     /\ Answered(call.outcomes) # {}
     /\ FirstAnswer(call.outcomes).text
     /\ FirstAnswer(call.outcomes).json
     /\ FirstAnswer(call.outcomes).fence = "json"
     /\ FirstAnswer(call.outcomes).value \in Receipts
     /\ Get(FirstAnswer(call.outcomes).value.d, "discount", PyNone).t # "str")
    => LET receipt == FirstAnswer(call.outcomes).value.d
           total == Get(receipt, "total_amount", PyNone)
           items == Get(receipt, "items", PyNone)
           tax == Get(receipt, "tax", PyNone)
           discount == Get(receipt, "discount", PyNone)
           derived == DecAdd(DecAdd(ItemAmounts(items.items, 1),
                                    IF IsNone(tax) THEN Num(0, 0) ELSE tax),
                             IF IsNone(discount) THEN Num(0, 0) ELSE PyNeg(discount))
       IN  /\ (IsNone(total) /\ items.t = "list" /\ items.items # <<>>)
              => /\ call.result.kind = "record"
                 /\ Get(call.result.data, "total_amount", PyNone) = derived
           /\ Truthy(total)
              => /\ call.result.kind = "record"
                 /\ Get(call.result.data, "total_amount", PyNone) = total

-----------------------------------------------------------------------------
(* parse_transaction_locally under test: the call is applied to texts of   *)
(* up to MaxWords words, with and without income and expense cues          *)

MaxWords == 3
IncomeWords == {<<"g", "a", "j", "i">>, <<"B", "o", "n", "u", "s">>}
ExpenseWords == {<<"b", "e", "l", "i">>, <<"u", "n", "t", "u", "k">>}
\* "dibayar oleh" is an income cue that holds the expense cue "dibayar"
BothWords == {<<"d", "i", "b", "a", "y", "a", "r", " ", "o", "l", "e", "h">>}
NeutralWords == {TextMakan, <<"5", "k">>, Kemarin, <<" ">>}
LocalWords == IncomeWords \cup ExpenseWords \cup BothWords \cup NeutralWords

RECURSIVE JoinWords(_)
\* ' '.join(words)
JoinWords(words) ==
    IF Len(words) = 1 THEN words[1]
    ELSE words[1] \o <<" ">> \o JoinWords(SubSeq(words, 2, Len(words)))

InitLocal ==
    /\ MachineAtRest
    /\ now_day = RunDay
    /\ call \in {[fn |-> "input", words |-> words, text |-> JoinWords(words)] :
                    words \in UNION {[1..n -> LocalWords] : n \in 1..MaxWords}}

\* the call returns
ApplyLocal ==
    /\ call.fn = "input"
    /\ call' = [fn |-> "parse_transaction_locally", words |-> call.words, text |-> call.text,
                result |-> parse_transaction_locally(call.text, now_day)]
    /\ MachineUnchanged

SpecLocal == InitLocal /\ [][ApplyLocal]_vars

\* C19: for every text, parse_transaction_locally classifies it as income
\* only when at least one income cue and no expense cue occurs in it; a text
\* with expense cues only, with cues of both kinds or with no cue is an
\* expense.
C19_IncomeNeedsNoExpenseCue ==
    call.fn = "parse_transaction_locally"
    => LET Has(cues) == \E i \in 1..Len(call.words) : call.words[i] \in cues
       IN  call.result.transaction_type =
              Str(IF Has(IncomeWords \cup BothWords) /\ ~Has(ExpenseWords \cup BothWords)
                  THEN Income ELSE Expense)

\* "gaji beli" holds cues of both kinds and is an expense; the text "gaji" is
\* an income
C19_Witness ==
    /\ call.fn = "parse_transaction_locally"
    /\ call.words = << <<"g", "a", "j", "i">>, <<"b", "e", "l", "i">> >>
    /\ call.result.transaction_type = Str(Expense)
    /\ parse_transaction_locally(<<"g", "a", "j", "i">>, now_day).transaction_type = Str(Income)

\* C20: for every non-empty text, parse_transaction_locally returns a record
\* whose category, description and date are strings, never None; the amount
\* is a number or None, and None when the text holds no digit.
C20_LocalRecordComplete ==
    (call.fn = "parse_transaction_locally" /\ call.text # <<>>)
    => /\ DOMAIN call.result
             = {"amount", "description", "transaction_type", "category", "date"}
       /\ IsStr(call.result.category)
       /\ IsStr(call.result.description)
       /\ IsStr(call.result.date)
       /\ IsNum(call.result.amount) \/ IsNone(call.result.amount)
       /\ (\A i \in 1..Len(call.text) : ~IsDigit(call.text[i])) => IsNone(call.result.amount)

\* "gaji kemarin" has no amount: the record has a None amount, the category
\* Gaji, the text as description and yesterday's date
C20_Witness ==
    /\ call.fn = "parse_transaction_locally"
    /\ call.words = << <<"g", "a", "j", "i">>, Kemarin >>
    /\ call.result.amount = PyNone
    /\ call.result.category = Str(Capitalize(<<"g", "a", "j", "i">>))
    /\ call.result.description = Str(call.text)
    /\ call.result.date = IsoDate(now_day - 1)

-----------------------------------------------------------------------------
(* The handlers of the receipt flow and of the report, as functions of the *)
(* user's dict d.  store lists the calls made on the sheet.                *)

Belanja == <<"B", "e", "l", "a", "n", "j", "a">>
Toko == <<"T", "o", "k", "o">>

\* f'Belanja di {store_name}'
ShoppingAt(store_name) == Str(Belanja \o <<" ", "d", "i", " ">> \o PyStr(store_name).s)

\* a handler that records the total of a receipt as soon as it is read
RecordedAtOnce(d, receipt_data, today) ==
    Outcome(d, "receipt_saved", "") @@ [store |-> <<"append">>]

\* process_receipt_total: the candidate of a receipt with a total only, or
\* the exception float() raises
process_receipt_total(d, receipt_data, today) ==
    LET total_amount == PyFloat(Get(receipt_data, "total_amount", Num(0, 0)))
        store_name == Get(receipt_data, "store_name", Str(Toko))
    IN  IF total_amount.exc # "none" THEN Outcome(d, "photo_failed", "")
        ELSE Outcome(Put(d, "pending_transaction",
                         PendingTransaction(Get(receipt_data, "receipt_date", IsoDate(today)),
                                            PyNeg(PyAbs(total_amount.value)),
                                            Str(Belanja),
                                            Get(receipt_data, "suggested_description",
                                                ShoppingAt(store_name)))),
                     "confirm_transaction", "confirm")

\* an item the loops over the items handle without raising: a dict whose
\* amount float() takes and whose quantity is a number
ItemReads(item) ==
    /\ IsDict(item)
    /\ PyFloat(Get(item.d, "amount", Num(0, 0))).exc = "none"
    /\ IsNum(Get(item.d, "quantity", Num(1, 0)))

\* process_receipt_items: the message is built from the total, the first
\* ten items, the tax and the discount, then the receipt is stored
process_receipt_items(d, receipt_data) ==
    LET items == receipt_data["items"].items
        shown == IF Len(items) > 10 THEN SubSeq(items, 1, 10) ELSE items
        tax == Get(receipt_data, "tax", PyNone)
        discount == Get(receipt_data, "discount", PyNone)
    IN  IF /\ IsNum(Get(receipt_data, "total_amount", Num(0, 0)))
           /\ \A i \in 1..Len(shown) : ItemReads(shown[i])
           /\ Truthy(tax) => PyFloat(tax).exc = "none"
           /\ Truthy(discount) => PyFloat(discount).exc = "none"
        THEN Outcome(Put(d, "pending_receipt", Dict(receipt_data)), "choose_recording", "receipt")
        ELSE Outcome(d, "photo_failed", "")

\* photo_handler for an authorized user; analysis is what
\* `await analyze_receipt_image(image)` gives
photo_handler(d, analysis, today) ==
    IF analysis.kind = "none" THEN Outcome(d, "photo_failed", "")
    ELSE IF analysis.kind = "error" THEN Outcome(d, "analysis_failed", "")
    ELSE IF Truthy(Get(analysis.data, "items", PyNone))
    THEN IF Get(analysis.data, "items", PyNone).t = "list"
         THEN process_receipt_items(d, analysis.data)
         ELSE Outcome(d, "photo_failed", "")
    ELSE IF Truthy(Get(analysis.data, "total_amount", PyNone))
    THEN process_receipt_total(d, analysis.data, today)
    ELSE Outcome(d, "nothing_detected", "")

\* receipt_callback, data "receipt_total": one row for the receipt
RecordTotal(receipt_data, user_id, today, k, append_ok) ==
    LET total_amount == PyFloat(Get(receipt_data, "total_amount", Num(0, 0)))
        store_name == Get(receipt_data, "store_name", Str(Toko))
    IN  IF total_amount.exc # "none"
        THEN [added |-> <<>>, reply |-> "record_failed", store |-> <<>>]
        ELSE IF ~append_ok
        THEN [added |-> <<>>, reply |-> "record_failed", store |-> <<"append">>]
        ELSE [added |-> << <<Get(receipt_data, "receipt_date", IsoDate(today)),
                             PyNeg(PyAbs(total_amount.value)),
                             Str(Belanja),
                             Get(receipt_data, "suggested_description", ShoppingAt(store_name)),
                             user_id,
                             Timestamp(today, k)>> >>,
              reply |-> "receipt_saved", store |-> <<"append", "list">>]

\* full_desc of an item: its description, its quantity when above one, and
\* the store
ItemDescription(item, store_name) ==
    LET item_desc == PyStr(Get(item, "description", Str(<<"I", "t", "e", "m">>))).s
        item_qty == Get(item, "quantity", Num(1, 0))
    IN  Str(item_desc
            \o (IF DecLess(Num(1, 0), item_qty) THEN <<" ", "(", "x", "n", ")">> ELSE <<>>)
            \o <<" ", "d", "i", " ">> \o PyStr(store_name).s)

RECURSIVE RecordItems(_, _, _, _, _, _, _)
\* the loop of "receipt_items" from item i on: an item that raises is
\* skipped; oks[i] is whether the i-th append_row returns
RecordItems(receipt_data, i, user_id, today, ks, oks, done) ==
    LET items == Get(receipt_data, "items", List(<<>>)).items
        item == items[i].d
        row == <<Get(receipt_data, "receipt_date", IsoDate(today)),
                 PyNeg(PyAbs(PyFloat(Get(item, "amount", Num(0, 0))).value)),
                 Get(item, "category", Str(Belanja)),
                 ItemDescription(item, Get(receipt_data, "store_name", Str(Toko))),
                 user_id,
                 Timestamp(today, ks[i])>>
    IN  IF i > Len(items) THEN done
        ELSE IF ~ItemReads(items[i])
        THEN RecordItems(receipt_data, i + 1, user_id, today, ks, oks, done)
        ELSE RecordItems(receipt_data, i + 1, user_id, today, ks, oks,
                         [added |-> IF oks[i] THEN Append(done.added, row) ELSE done.added,
                          store |-> Append(done.store, "append")])

\* "receipt_items": the rows appended, success_count, and the items the
\* summary is made of, items[:success_count]; the summary raises on an
\* amount float() refuses
RecordedItems(receipt_data, user_id, today, ks, oks) ==
    LET items == Get(receipt_data, "items", List(<<>>)).items
        done == RecordItems(receipt_data, 1, user_id, today, ks, oks,
                            [added |-> <<>>, store |-> <<>>])
        summed == \A i \in 1..Len(done.added) :
                      /\ IsDict(items[i])
                      /\ PyFloat(Get(items[i].d, "amount", Num(0, 0))).exc = "none"
    IN  done @@ [reply |-> IF summed THEN "items_saved" ELSE "items_failed",
                 count |-> Len(done.added),
                 summary |-> IF summed THEN SubSeq(items, 1, Len(done.added)) ELSE <<>>]

RECURSIVE CategoryTotals(_, _, _)
\* category_totals after the items from i on were added: the categories in
\* the order they were first seen
CategoryTotals(items, i, totals) ==
    IF i > Len(items) THEN totals
    ELSE LET category == Get(items[i].d, "category", Str(Belanja))
             amount == PyAbs(PyFloat(Get(items[i].d, "amount", Num(0, 0))).value)
             seen == {g \in 1..Len(totals) : totals[g].category = category}
         IN  IF seen = {}
             THEN CategoryTotals(items, i + 1,
                                 Append(totals, [category |-> category, total |-> amount]))
             ELSE LET g == CHOOSE g \in seen : TRUE
                  IN  CategoryTotals(items, i + 1,
                                     [totals EXCEPT ![g].total = DecAdd(@, amount)])

\* "receipt_categories": one row per category; the grouping raises on an
\* item that is no dict or whose amount float() refuses
RecordedCategories(receipt_data, user_id, today, ks, oks) ==
    LET items == Get(receipt_data, "items", List(<<>>)).items
        totals == CategoryTotals(items, 1, <<>>)
        store_name == Get(receipt_data, "store_name", Str(Toko))
        row(g) == <<Get(receipt_data, "receipt_date", IsoDate(today)),
                    PyNeg(totals[g].total),
                    totals[g].category,
                    Str(Belanja \o <<" ">> \o PyStr(totals[g].category).s
                        \o <<" ", "d", "i", " ">> \o PyStr(store_name).s),
                    user_id,
                    Timestamp(today, ks[g])>>
    IN  IF \E i \in 1..Len(items) :
              ~IsDict(items[i]) \/ PyFloat(Get(items[i].d, "amount", Num(0, 0))).exc # "none"
        THEN [added |-> <<>>, reply |-> "categories_failed", store |-> <<>>]
        ELSE [added |-> [j \in 1..Cardinality({g \in 1..Len(totals) : oks[g]}) |->
                            row(CHOOSE g \in 1..Len(totals) :
                                    /\ oks[g]
                                    /\ Cardinality({h \in 1..g : oks[h]}) = j)],
              reply |-> "categories_saved",
              store |-> [g \in 1..Len(totals) |-> "append"]]

\* receipt_callback, data "receipt_cancel", "receipt_total", "receipt_items"
\* and "receipt_categories"
ReceiptCallback(d, action, user_id, today, ks, rows, up, oks) ==
    LET receipt_data == Get(d, "pending_receipt", Dict(EmptyDict))
        same == [ud |-> d, rows |-> rows, kb |-> ""]
        recorded == CASE action = "total" ->
                            RecordTotal(receipt_data.d, user_id, today, ks[1], oks[1])
                      [] action = "items" ->
                            RecordedItems(receipt_data.d, user_id, today, ks, oks)
                      [] action = "categories" ->
                            RecordedCategories(receipt_data.d, user_id, today, ks, oks)
    IN  IF action = "cancel"
        THEN [ud |-> Pop(d, "pending_receipt"), rows |-> rows, kb |-> "",
              reply |-> "receipt_cancelled", store |-> <<>>]
        ELSE IF ~Truthy(receipt_data) THEN same @@ [reply |-> "receipt_missing", store |-> <<>>]
        ELSE IF ~up THEN same @@ [reply |-> "sheet_unavailable", store |-> <<>>]
        ELSE [ud |-> Pop(d, "pending_receipt"), rows |-> rows \o recorded.added, kb |-> "",
              reply |-> recorded.reply, store |-> recorded.store,
              count |-> IF "count" \in DOMAIN recorded THEN recorded.count ELSE 0,
              summary |-> IF "summary" \in DOMAIN recorded THEN recorded.summary ELSE <<>>]

\* report for an authorized user: the sheet is read once it is available
Report(d, user_id, rows, up) ==
    IF ~up THEN [ud |-> d, rows |-> rows, kb |-> "", reply |-> "sheet_unavailable",
                 store |-> <<>>]
    ELSE [ud |-> d, rows |-> rows, kb |-> "",
          reply |-> IF UserRows(rows, user_id) = <<>> THEN "no_records" ELSE "report",
          store |-> <<"list">>]

-----------------------------------------------------------------------------
(* The handlers in front of the store under test: an update of StoreUser   *)
(* reaches the bot while the user is at some position of a dialogue and    *)
(* the store holds rows of earlier sessions, of StoreUser and of another   *)
(* owner.                                                                  *)

MaxStored == 3   \* rows the store holds beforehand at most
StoreUser == 1
OtherUser == 2

StoredRow(u, k) ==
    <<IsoDate(RunDay), Num(-5, 3), Str(Makanan), Str(<<"x">>), u, Timestamp(RunDay, k)>>
StoredRows == {StoredRow(StoreUser, 0), StoredRow(StoreUser, 1), StoredRow(OtherUser, 0)}
StoreContents == UNION {[1..n -> StoredRows] : n \in 0..MaxStored}

\* what analyze_receipt_image reads off the photos of the model: nothing, an
\* error, a total alone, two items, items under a total written as text, no
\* transaction
PhotoItem(amount, category) ==
    Dict([description |-> Str(<<"x">>), amount |-> amount, category |-> category])
TotalPhoto ==
    [kind |-> "record",
     data |-> [total_amount |-> Num(15, 3), receipt_date |-> IsoDate(RunDay)]]
ItemsPhoto ==
    [kind |-> "record",
     data |-> [total_amount |-> Num(75, 2), receipt_date |-> IsoDate(RunDay),
               items |-> List(<<PhotoItem(Num(5, 3), Str(Makanan)),
                                PhotoItem(Num(25, 2), PyNone)>>)]]
PhotoAnalyses ==
    {[kind |-> "none"], [kind |-> "error", error |-> "busy"], TotalPhoto, ItemsPhoto,
     [kind |-> "record",
      data |-> [total_amount |-> Str(<<"5", "0", "0", "0">>), receipt_date |-> IsoDate(RunDay),
                items |-> List(<<PhotoItem(Num(5, 3), Str(Makanan))>>)]],
     [kind |-> "record", data |-> [receipt_date |-> IsoDate(RunDay)]]}

\* the extractions of a text while the completion service is down
Down(text) == Extractions(text, [i \in 1..Len(ExtractionInputs(text)) |-> AiDown])

\* two lines with an amount each; the service is down for the first and
\* answers for the second
TextTwoBeli == TextBeli \o <<"\n">> \o TextBeli
HalfDown ==
    Extractions(TextTwoBeli,
                <<AiDown, AiAnswers(AiFields(Num(7, 3), Str(Expense), PyNone))>>)

\* the dict of StoreUser after the text reached message_handler
Texted(d, text, rows, up) ==
    message_handler(d, text, StoreUser, RunDay, Down(text), rows, up).ud

\* the positions StoreUser can be at: no dialogue, the type question, the
\* amount question, a candidate read off a text, a candidate built from the
\* amount reply, a batch of one and of two, a receipt with items, a
\* candidate read off a receipt, the three steps of the delete-by-date
\* dialogue, the choice of a transaction to delete
Positions(rows, up) ==
    LET asked == Texted(EmptyDict, TextMakan, rows, up)
        chosen == TypeChosen(asked, Expense, RunDay).ud
        dated == DeleteCallback(EmptyDict, "date", StoreUser, rows, up).ud
        started == Texted(dated, TextDate, rows, up)
    IN  {EmptyDict, asked, chosen,
         Texted(EmptyDict, TextBeli, rows, up),
         Texted(chosen, TextBeli, rows, up),
         Texted(EmptyDict, TextTwoLines, rows, up),
         message_handler(EmptyDict, TextTwoBeli, StoreUser, RunDay, HalfDown, rows, up).ud,
         photo_handler(EmptyDict, ItemsPhoto, RunDay).ud,
         photo_handler(EmptyDict, TotalPhoto, RunDay).ud,
         dated, started, Texted(started, TextDate, rows, up),
         DeleteCallback(EmptyDict, "specific", StoreUser, rows, up).ud}

\* the updates: a text, a photo, a command, a tap on a button
StoreUpdates ==
    {[h |-> "message", text |-> text] : text \in Texts}
    \cup {[h |-> "photo", analysis |-> analysis] : analysis \in PhotoAnalyses}
    \cup {[h |-> "type", type |-> type] : type \in {Income, Expense}}
    \cup {[h |-> "command", button |-> command] : command \in Commands \cup {"laporan"}}
    \cup {[h |-> "confirm", button |-> button] : button \in {"yes", "edit", "cancel"}}
    \cup {[h |-> "confirm_all", button |-> button] : button \in {"yes", "no"}}
    \cup {[h |-> "receipt", button |-> button] :
             button \in {"total", "items", "categories", "cancel"}}
    \cup {[h |-> "delete", button |-> button] :
             button \in {"cancel", "last", "specific", "date", "all"}}
    \cup {[h |-> "del_specific", index |-> index] : index \in {0, 1}}
    \cup {[h |-> "confirm_delete", button |-> button] : button \in {"all", "date"}}

\* the seconds the appends of one handler are stamped at
Stamps == {ks \in [1..2 -> 0..MaxClock] : ks[1] <= ks[2]}

\* what a handler did: the dict, the rows, the reply, its keyboard, the
\* count it reports and the items it summarises, the calls on the sheet
Effect(o, rows) ==
    [ud |-> o.ud, reply |-> o.reply, kb |-> o.kb,
     rows |-> IF "rows" \in DOMAIN o THEN o.rows ELSE rows,
     count |-> IF "count" \in DOMAIN o THEN o.count ELSE 0,
     summary |-> IF "summary" \in DOMAIN o THEN o.summary ELSE <<>>,
     store |-> IF "store" \in DOMAIN o THEN o.store ELSE <<>>]

\* the updates whose handlers append: for the others the store's answers to
\* appends play no part
Appending(update) ==
    \/ update.h = "confirm" /\ update.button = "yes"
    \/ update.h = "confirm_all" /\ update.button = "yes"
    \/ update.h = "receipt" /\ update.button # "cancel"

\* the handler main registers for the update, applied
HandleUpdate(update, d, user_id, today, rows, up, ks, oks) ==
    CASE update.h = "message" ->
            message_handler(d, update.text, user_id, today, Down(update.text), rows, up)
      [] update.h = "photo" -> photo_handler(d, update.analysis, today)
      [] update.h = "type" -> TypeChosen(d, update.type, today)
      [] update.h = "command" ->
            IF update.button = "laporan" THEN Report(d, user_id, rows, up)
            ELSE CommandHandler(d, update.button)
      [] update.h = "confirm" ->
            (CASE update.button = "yes" -> ConfirmYes(d, user_id, today, ks[1], rows, up, oks[1])
               [] update.button = "edit" -> ConfirmEdit(d)
               [] update.button = "cancel" -> ConfirmCancel(d))
      [] update.h = "confirm_all" ->
            IF update.button = "yes" THEN ConfirmAllYes(d, user_id, today, ks, rows, up, oks)
            ELSE ConfirmAllNo(d)
      [] update.h = "receipt" ->
            ReceiptCallback(d, update.button, user_id, today, ks, rows, up, oks)
      [] update.h = "delete" -> DeleteCallback(d, update.button, user_id, rows, up)
      [] update.h = "del_specific" -> DeleteSpecific(d, update.index, user_id, rows, up)
      [] update.h = "confirm_delete" -> ConfirmDelete(d, update.button, user_id, rows, up)

InitStore ==
    /\ MachineAtRest
    /\ now_day = RunDay
    /\ \E rows \in StoreContents, up \in BOOLEAN :
         \E d \in Positions(rows, up), update \in StoreUpdates :
            call = [fn |-> "input", update |-> update, d |-> d, rows |-> rows, up |-> up]

\* the update is handled; oks[i] is whether the i-th append_row of the
\* handler returns, ks[i] the second it is stamped at
ApplyStore ==
    /\ call.fn = "input"
    /\ \E oks \in [1..2 -> BOOLEAN], ks \in Stamps :
         /\ ~Appending(call.update) => oks = <<TRUE, TRUE>> /\ ks = <<0, 0>>
         /\ call' = [fn |-> "handled", update |-> call.update, d |-> call.d,
                     rows |-> call.rows, up |-> call.up, oks |-> oks, ks |-> ks,
                     result |-> Effect(HandleUpdate(call.update, call.d, StoreUser, now_day,
                                                    call.rows, call.up, ks, oks),
                                       call.rows)]
    /\ MachineUnchanged

SpecStore == InitStore /\ [][ApplyStore]_vars

\* the update asks for something to be written to, read from or deleted from
\* the store: a confirm, a batch confirm of a pending batch, a recording
\* choice for a pending receipt, the report, a delete action
StoreRequest(update, d) ==
    \/ update.h = "confirm" /\ update.button = "yes"
    \/ /\ update.h = "confirm_all" /\ update.button = "yes"
       /\ Truthy(Get(d, "pending_multiple_transactions", List(<<>>)))
    \/ /\ update.h = "receipt" /\ update.button # "cancel"
       /\ Truthy(Get(d, "pending_receipt", Dict(EmptyDict)))
    \/ update.h = "command" /\ update.button = "laporan"
    \/ update.h = "delete" /\ update.button # "cancel"
    \/ update.h \in {"del_specific", "confirm_delete"}

\* C21: whenever the store is unavailable, the handler of an update makes no
\* call on the store (append, list or delete) and leaves its rows as they
\* are; the single confirm, the batch confirm of a pending batch, the
\* recording of a pending receipt, the report and every delete action answer
\* that the store is unavailable.
C21_UnavailableStoreUntouched ==
    (call.fn = "handled" /\ ~call.up)
    => /\ call.result.store = <<>>
       /\ call.result.rows = call.rows
       /\ StoreRequest(call.update, call.d) => call.result.reply = "sheet_unavailable"

\* the store is unavailable, holds rows of the user, and the user confirms
\* the deletion of all of them: the answer is that the store is unavailable
C21_Witness ==
    /\ call.fn = "handled"
    /\ ~call.up
    /\ UserRows(call.rows, StoreUser) # <<>>
    /\ call.update = [h |-> "confirm_delete", button |-> "all"]
    /\ call.result.reply = "sheet_unavailable"
    /\ call.result.rows = call.rows

\* the pending batch of a dict
PendingBatch(d) == Get(d, "pending_multiple_transactions", List(<<>>)).items

\* the transactions of a batch whose append returned, in the order of the
\* batch
Appended(transactions, oks) ==
    SelectSeq([i \in 1..Len(transactions) |-> [at |-> i, transaction |-> transactions[i].d]],
              LAMBDA x : oks[x.at])

\* C22: on batch confirm of N pending transactions with the store available,
\* one append is attempted per transaction (N in all, none again after a
\* failure); the rows added are those of the transactions whose append
\* returned, in the order of the batch, a failed append not keeping the
\* later ones out; the reported count is the number of rows added, between 0
\* and N; the pending batch is gone afterwards.
C22_BatchAppendsEachOnce ==
    (/\ call.fn = "handled"
     /\ call.update = [h |-> "confirm_all", button |-> "yes"]
     /\ call.up
     /\ PendingBatch(call.d) # <<>>)
    => LET transactions == PendingBatch(call.d)
           appended == Appended(transactions, call.oks)
       IN  /\ call.result.store = [i \in 1..Len(transactions) |-> "append"]
           /\ Len(call.result.rows) = Len(call.rows) + Len(appended)
           /\ \A j \in 1..Len(appended) :
                LET row == call.result.rows[Len(call.rows) + j]
                IN  /\ RowDescription(row) = appended[j].transaction["description"]
                    /\ RowAmount(row) = appended[j].transaction["amount"]
                    /\ RowUser(row) = StoreUser
           /\ SubSeq(call.result.rows, 1, Len(call.rows)) = call.rows
           /\ call.result.count = Len(appended)
           /\ call.result.count \in 0..Len(transactions)
           /\ "pending_multiple_transactions" \notin DOMAIN call.result.ud

\* a batch of two whose first append fails and whose second returns: one row
\* is added, that of the second transaction, and the count is 1
C22_Witness ==
    /\ call.fn = "handled"
    /\ call.update = [h |-> "confirm_all", button |-> "yes"]
    /\ call.up
    /\ Len(PendingBatch(call.d)) = 2
    /\ call.oks = <<FALSE, TRUE>>
    /\ call.result.count = 1
    /\ Len(call.result.rows) = Len(call.rows) + 1
    /\ RowDescription(call.result.rows[Len(call.rows) + 1])
           = PendingBatch(call.d)[2].d["description"]

-----------------------------------------------------------------------------
(* call_gemini_with_retry under test: the call is applied to operations    *)
(* that fail or answer at each invocation, for ceilings up to MaxRetries   *)

MaxRetries == 3   \* the largest max_retries handed over
RetryErrors == {Quota, Unavailable}
RetryAnswers == {1, 2}
RetryOutcomes ==
    {AiError(e) : e \in RetryErrors} \cup {[ok |-> TRUE, resp |-> x] : x \in RetryAnswers}

InitRetry ==
    /\ MachineAtRest
    /\ now_day = RunDay
    /\ \E m \in 0..MaxRetries, base_delay \in {TextBaseDelay, ReceiptBaseDelay} :
         \E outcomes \in [1..(m + 1) -> RetryOutcomes] :
            call = [fn |-> "input", outcomes |-> outcomes, max_retries |-> m,
                    base_delay |-> base_delay]

\* the call returns or raises
ApplyRetry ==
    /\ call.fn = "input"
    /\ call' = [fn |-> "call_gemini_with_retry", outcomes |-> call.outcomes,
                max_retries |-> call.max_retries, base_delay |-> call.base_delay,
                result |-> call_gemini_with_retry(call.outcomes, call.max_retries,
                                                  call.base_delay)]
    /\ MachineUnchanged

SpecRetry == InitRetry /\ [][ApplyRetry]_vars

\* C23: call_gemini_with_retry(op, max_retries = m) invokes op at most m + 1
\* times; it returns the result of the first invocation that succeeds, op
\* having been invoked no further; when all m + 1 invocations fail it raises
\* the error of the last one; it waits once between two invocations.  The
\* text extractor hands over m = 2, the receipt extractor m = 3.
C23_RetryBounded ==
    /\ TextMaxRetries = 2
    /\ ReceiptMaxRetries = 3
    /\ call.fn = "call_gemini_with_retry"
       => LET m == call.max_retries
              succeed == {k \in 1..(m + 1) : call.outcomes[k].ok}
              first == CHOOSE k \in succeed : \A j \in succeed : k <= j
          IN  /\ call.result.calls <= m + 1
              /\ Len(call.result.waits) = call.result.calls - 1
              /\ succeed # {} => /\ ~call.result.raised
                                 /\ call.result.calls = first
                                 /\ call.result.resp = call.outcomes[first].resp
              /\ succeed = {} => /\ call.result.raised
                                 /\ call.result.calls = m + 1
                                 /\ call.result.err = call.outcomes[m + 1].err

\* with m = 2, two failures and then an answer: three invocations, two
\* waits, the answer returned
C23_Witness ==
    /\ call.fn = "call_gemini_with_retry"
    /\ call.max_retries = TextMaxRetries
    /\ call.outcomes = <<AiError(Quota), AiError(Unavailable), [ok |-> TRUE, resp |-> 2]>>
    /\ call.result.calls = 3
    /\ Len(call.result.waits) = 2
    /\ ~call.result.raised
    /\ call.result.resp = 2

-----------------------------------------------------------------------------
(* The bot with two authorized users: their updates are handled in any     *)
(* order                                                                   *)

SharedUsers == {1, 2}

InitShared ==
    /\ user_data = [u \in SharedUsers |-> EmptyDict]
    /\ sheet_rows = <<>>
    /\ sheet_up \in BOOLEAN
    /\ now_day = RunDay
    /\ clock = 0
    /\ keyboards = [u \in SharedUsers |-> [kb \in KeyboardKinds |-> 0]]
    /\ updates = 0
    /\ last = NoUpdate
    /\ call = NoCall

\* the bot handles one more update, of either user
NextShared ==
    \E u \in SharedUsers :
        \/ TextMessage(u)
        \/ Command(u)
        \/ ChooseType(u)
        \/ Confirm(u)
        \/ Edit(u)
        \/ Cancel(u)
        \/ ConfirmAll(u)
        \/ CancelAll(u)
        \/ DeleteChoice(u)
        \/ ConfirmDeletion(u)

SpecShared == InitShared /\ [][NextShared]_vars

\* C24: in every order in which the updates of two users are handled, the
\* handling of an update of user a leaves the dict of every other user b as
\* it was: the conversation state and every stored field of b.
C24_OtherContextUntouched ==
    [][\A a \in SharedUsers, b \in SharedUsers :
          (a # b /\ updates' # updates /\ last'.user = a)
          => user_data'[b] = user_data[b]]_vars

\* user 1 confirms a candidate while a candidate of user 2 awaits its
\* answer: the row of user 1 is saved, the context of user 1 is cleared and
\* the candidate of user 2 is still pending
C24_Witness ==
    /\ last = Update("confirm_yes", 1, "saved")
    /\ Cleared(user_data[1])
    /\ StateOf(user_data[2]) = "PENDING_CONFIRMATION"
    /\ Len(sheet_rows) = 1

\* the updates that hand the bot something to look at or change the user's
\* mind: a text (an amount reply among them), a photo, the choice of a type,
\* edit, cancel, the cancel of a batch or of a receipt
NoConfirmation(update) ==
    \/ update.h \in {"message", "photo", "type"}
    \/ update.h = "confirm" /\ update.button \in {"edit", "cancel"}
    \/ update.h = "confirm_all" /\ update.button = "no"
    \/ update.h = "receipt" /\ update.button = "cancel"

\* C25: append_row is called, and the store grows, only in the handling of a
\* confirmation: the confirm button, the confirm button of a batch or a
\* recording choice for a receipt.  The handling of a text, a photo, a type
\* choice, an amount reply, edit or cancel calls no append and leaves the
\* rows of the store as they are.
C25_OnlyConfirmationAppends ==
    call.fn = "handled"
    => /\ (\E i \in 1..Len(call.result.store) : call.result.store[i] = "append")
          => Appending(call.update)
       /\ Len(call.result.rows) > Len(call.rows) => Appending(call.update)
       /\ NoConfirmation(call.update)
          => /\ call.result.rows = call.rows
             /\ \A i \in 1..Len(call.result.store) : call.result.store[i] = "list"

\* a candidate awaits its answer, the store is available and holds a row,
\* and the user cancels: the candidate is gone and the store is as it was
C25_Witness ==
    /\ call.fn = "handled"
    /\ call.up
    /\ call.rows # <<>>
    /\ StateOf(call.d) = "PENDING_CONFIRMATION"
    /\ call.update = [h |-> "confirm", button |-> "cancel"]
    /\ "pending_transaction" \notin DOMAIN call.result.ud
    /\ call.result.rows = call.rows

\* C26: the candidate a user is asked to confirm, and every row of the
\* store, carries a category that is not None, whatever the completion
\* service answered.
C26_CategoryNeverNull ==
    /\ \A u \in Users :
           StateOf(user_data[u]) = "PENDING_CONFIRMATION"
           => ~IsNone(Get(Get(user_data[u], "pending_transaction", Dict(EmptyDict)).d,
                          "category", PyNone))
    /\ \A i \in 1..Len(sheet_rows) : ~IsNone(RowCategory(sheet_rows[i]))

-----------------------------------------------------------------------------
(* the dispatch of updates: main builds the application without            *)
(* concurrent_updates and registers every handler blocking, so             *)
(* run_polling hands the updates of all users to the handlers one after    *)
(* the other, each awaited to its end; a handler is suspended at the       *)
(* asyncio.sleep of a retry or of the pacing between two appends           *)

MaxPolled == 3    \* the updates polled in one run
MaxBatch == 2     \* the transactions of a confirmed batch
NoHandler == [user |-> 0, h |-> "none"]
PolledUpdates == {[user |-> u, h |-> h] : u \in SharedUsers, h \in {"message", "confirm_all"}}

InitDispatch ==
    /\ MachineAtRest
    /\ now_day = RunDay
    /\ call = [fn |-> "dispatch", queue |-> <<>>, handler |-> NoHandler, at |-> "none",
               attempt |-> 0, appended |-> 0, handled |-> <<>>]

\* run_polling: an update is fetched from the transport and queued
Polled(update) ==
    /\ call.fn = "dispatch"
    /\ Len(call.queue) + Len(call.handled) + (IF call.handler = NoHandler THEN 0 ELSE 1)
           < MaxPolled
    /\ call' = [call EXCEPT !.queue = Append(@, update)]
    /\ MachineUnchanged

\* the application takes the next update once the handler of the one before
\* has returned, and awaits its handler
Dispatch ==
    /\ call.fn = "dispatch"
    /\ call.handler = NoHandler
    /\ call.queue # <<>>
    /\ call' = [call EXCEPT !.queue = Tail(@), !.handler = Head(call.queue),
                            !.at = "running", !.attempt = 0, !.appended = 0]
    /\ MachineUnchanged

\* call_gemini_with_retry: an attempt before the last fails and the handler
\* of a text awaits asyncio.sleep(delay)
RetryWait ==
    /\ call.fn = "dispatch"
    /\ call.handler.h = "message"
    /\ call.at = "running"
    /\ call.attempt < TextMaxRetries
    /\ call' = [call EXCEPT !.attempt = @ + 1, !.at = "retry_wait"]
    /\ MachineUnchanged

\* multiple_transactions_callback: a row is appended and the handler of the
\* batch confirm awaits asyncio.sleep(0.5)
PacingWait ==
    /\ call.fn = "dispatch"
    /\ call.handler.h = "confirm_all"
    /\ call.at = "running"
    /\ call.appended < MaxBatch
    /\ call' = [call EXCEPT !.appended = @ + 1, !.at = "pacing_wait"]
    /\ MachineUnchanged

\* the sleep is over
Resumed ==
    /\ call.fn = "dispatch"
    /\ call.at \in {"retry_wait", "pacing_wait"}
    /\ call' = [call EXCEPT !.at = "running"]
    /\ MachineUnchanged

\* the handler returns
Returned ==
    /\ call.fn = "dispatch"
    /\ call.at = "running"
    /\ call' = [call EXCEPT !.handler = NoHandler, !.at = "none",
                            !.handled = Append(@, call.handler)]
    /\ MachineUnchanged

NextDispatch ==
    \/ \E update \in PolledUpdates : Polled(update)
    \/ Dispatch
    \/ RetryWait
    \/ PacingWait
    \/ Resumed
    \/ Returned

SpecDispatch == InitDispatch /\ [][NextDispatch]_vars

\* C27: while the handler of one user's update is suspended in a retry wait
\* or in the pacing delay between two appends, a queued update of another
\* user can be dispatched to its handler.
C27_OtherUserNotBlocked ==
    (/\ call.fn = "dispatch"
     /\ call.at \in {"retry_wait", "pacing_wait"}
     /\ call.queue # <<>>
     /\ Head(call.queue).user # call.handler.user)
    => ENABLED Dispatch

\* C28: whenever the confirm button is handled for a user who has no
\* pending candidate, the rows of the store are left as they are.
C28_ConfirmWithoutCandidateAppendsNothing ==
    [][\A u \in Users :
          (/\ last'.op = "confirm_yes"
           /\ last'.user = u
           /\ "pending_transaction" \notin DOMAIN user_data[u])
          => sheet_rows' = sheet_rows]_vars

\* the rows of the store that belong to someone else than the acting user
OthersRow(row) == RowUser(row) # StoreUser

\* C29: whatever rows the store holds, rows of one owner with equal
\* timestamps among them, the handling of a delete action (last, specific,
\* date range, all, and their confirmations) of one user leaves every row
\* of the other users in the store.
C29_OnlyOwnRowsRemoved ==
    (/\ call.fn = "handled"
     /\ call.update.h \in {"delete", "del_specific", "confirm_delete"})
    => SelectSeq(call.result.rows, OthersRow) = SelectSeq(call.rows, OthersRow)

\* C30: the edit button handled for a user in PENDING_CONFIRMATION calls
\* nothing on the store and removes the candidate; with the raw text stored
\* the user is in WAITING_TYPE afterwards, the raw text as it was, and is
\* shown the income/expense choice; without it no conversation-context key
\* is left and the user is asked to send the transaction again.
C30_EditReturnsToType ==
    (/\ call.fn = "handled"
     /\ call.update = [h |-> "confirm", button |-> "edit"]
     /\ StateOf(call.d) = "PENDING_CONFIRMATION")
    => /\ call.result.rows = call.rows
       /\ call.result.store = <<>>
       /\ "pending_transaction" \notin DOMAIN call.result.ud
       /\ IF "pending_message" \in DOMAIN call.d
          THEN /\ StateOf(call.result.ud) = "WAITING_TYPE"
               /\ SameAt(call.result.ud, call.d, "pending_message")
               /\ call.result.reply = "ask_type"
               /\ call.result.kb = "type"
          ELSE /\ Cleared(call.result.ud)
               /\ call.result.reply = "resend"
               /\ call.result.kb = ""

\* a candidate read off a text is edited while the store holds a row: the
\* type question is asked again about the same text
C30_Witness ==
    /\ call.fn = "handled"
    /\ call.update = [h |-> "confirm", button |-> "edit"]
    /\ StateOf(call.d) = "PENDING_CONFIRMATION"
    /\ call.up
    /\ call.rows # <<>>
    /\ "pending_message" \in DOMAIN call.d
    /\ StateOf(call.result.ud) = "WAITING_TYPE"
    /\ call.result.kb = "type"

\* the candidate the amount a gives with what d stores: the sign of the
\* stored type, the stored raw text, the stored detected date and category
\* ("Lainnya" when no category is stored)
CandidateFrom(d, a) ==
    PendingTransaction(Get(d, "detected_date", PyNone),
                       IF Get(d, "transaction_type", PyNone) = Str(Expense)
                       THEN PyNeg(PyAbs(a)) ELSE PyAbs(a),
                       Get(d, "pending_category", Str(Lainnya)),
                       Get(d, "pending_message", PyNone))

\* C31: for a user in WAITING_AMOUNT whose raw text and detected date are
\* stored, every text in which the amount normalizer finds an amount a
\* leaves the user in PENDING_CONFIRMATION with the candidate of a: amount
\* -|a| for the stored type expense and +|a| for income, the stored raw text
\* as description, the stored detected date and category.
C31_AmountReplyGivesCandidate ==
    \A u \in Users, text \in Texts :
        (/\ StateOf(user_data[u]) = "WAITING_AMOUNT"
         /\ "pending_message" \in DOMAIN user_data[u]
         /\ "detected_date" \in DOMAIN user_data[u]
         /\ ~IsNone(parse_indonesian_amount(text)))
        => \A ais \in [1..Len(ExtractionInputs(text)) -> MachineAis] :
             LET o == message_handler(user_data[u], text, u, now_day, Extractions(text, ais),
                                      sheet_rows, sheet_up)
             IN  /\ StateOf(o.ud) = "PENDING_CONFIRMATION"
                 /\ Get(o.ud, "pending_transaction", PyNone)
                        = CandidateFrom(user_data[u], parse_indonesian_amount(text))

\* C32: whenever the income or the expense button is handled for a user in
\* WAITING_TYPE, the chosen type is stored, the raw text and the detected
\* date stay stored and are stored as description and date, the user is in
\* WAITING_AMOUNT and is asked for the amount; no candidate is pending and
\* the rows of the store are as they were.
C32_TypeChoiceAsksAmount ==
    [][\A u \in Users :
          (/\ last'.op = "type"
           /\ last'.user = u
           /\ StateOf(user_data[u]) = "WAITING_TYPE")
          => (/\ Get(user_data'[u], "transaction_type", PyNone) \in {Str(Income), Str(Expense)}
              /\ SameAt(user_data'[u], user_data[u], "pending_message")
              /\ SameAt(user_data'[u], user_data[u], "detected_date")
              /\ Get(user_data'[u], "description", PyNone) = user_data[u]["pending_message"]
              /\ Get(user_data'[u], "date", PyNone)
                     = Get(user_data[u], "detected_date", PyNone)
              /\ StateOf(user_data'[u]) = "WAITING_AMOUNT"
              /\ last'.reply = "ask_amount"
              /\ "pending_transaction" \notin DOMAIN user_data'[u]
              /\ sheet_rows' = sheet_rows)]_vars

\* a text without amount was answered with the type question and the user
\* chose expense
C32_Witness ==
    /\ updates = 2
    /\ last.op = "type"
    /\ last.reply = "ask_amount"
    /\ \E u \in Users :
        /\ last.user = u
        /\ StateOf(user_data[u]) = "WAITING_AMOUNT"
        /\ Get(user_data[u], "transaction_type", PyNone) = Str(Expense)
        /\ Get(user_data[u], "description", PyNone) = Str(TextMakan)
        /\ Get(user_data[u], "pending_message", PyNone) = Str(TextMakan)
        /\ "pending_transaction" \notin DOMAIN user_data[u]

\* C33: once a single-line text has started a new flow with the type
\* question (the text gave no candidate), a confirm handled next persists no
\* candidate: one still pending then was produced by an earlier input.
C33_EarlierCandidateNotPersisted ==
    [][\A u \in Users :
          (/\ last.op = "message"
           /\ last.reply = "ask_type"
           /\ last.user = u
           /\ last'.op = "confirm_yes"
           /\ last'.user = u
           /\ sheet_rows' # sheet_rows)
          => "pending_transaction" \notin DOMAIN user_data[u]]_vars

\* the first answer of the completion service during the call
TextAnswered == {k \in 1..(TextMaxRetries + 1) : call.outcomes[k].ok}
TextAnswer == call.outcomes[CHOOSE k \in TextAnswered : \A j \in TextAnswered : k <= j].resp

\* the answer is a JSON object the extractor reads
AnswerRead ==
    /\ call.fn = "parse_financial_data"
    /\ TextAnswered # {}
    /\ TextAnswer.text
    /\ TextAnswer.json
    /\ TextAnswer.fence # "tagged"
    /\ IsDict(TextAnswer.value)

\* the amount and type of the result are the local amount and the answer's
\* type, or the local type when the answer has none
LocalAmountTaken ==
    LET ai == TextAnswer.value.d
    IN  /\ Get(call.result.data, "amount", PyNone) = call.local.amount
        /\ Get(call.result.data, "transaction_type", PyNone)
               = IF ~IsNone(Get(ai, "transaction_type", PyNone))
                 THEN Get(ai, "transaction_type", PyNone)
                 ELSE call.local.transaction_type

\* the amount of the result is the magnitude of the answer's amount, signed
AnswerAmountTaken ==
    LET ai == TextAnswer.value.d
    IN  /\ ~call.result.fallback
        /\ PyAbs(Get(call.result.data, "amount", PyNone))
               = PyAbs(PyFloat(Get(ai, "amount", PyNone)).value)

C35_DeleteCancelEndsDialogue ==
    [][\A u \in Users :
          (/\ last'.op = "delete_cancel"
           /\ last'.user = u
           /\ "delete_state" \in DOMAIN user_data[u])
          => {"delete_state", "start_date", "records_to_delete"} \cap DOMAIN user_data'[u]
                 = {}]_vars

\* the rows the handler appended
NewRows == SubSeq(call.result.rows, Len(call.rows) + 1, Len(call.result.rows))

\* C36: after the recording of a receipt item by item, the count reported
\* is the number of rows appended and the summary is made of the items
\* whose rows were appended (read here by their amounts), whichever appends
\* failed.
C36_ItemSummaryMatchesRows ==
    (/\ call.fn = "handled"
     /\ call.update = [h |-> "receipt", button |-> "items"]
     /\ call.result.reply = "items_saved")
    => /\ call.result.count = Len(NewRows)
       /\ [i \in 1..Len(call.result.summary) |->
              PyAbs(PyFloat(Get(call.result.summary[i].d, "amount", Num(0, 0))).value)]
          = [i \in 1..Len(NewRows) |-> PyAbs(RowAmount(NewRows[i]))]

\* C37: for every weekday T of today and every named weekday W, the
\* response carrying no date: a time context naming W alone resolves to the
\* date (T - W) mod 7 days before today, today itself when W is today's
\* weekday; with the qualifier depan or next it resolves to the date
\* (W - T) mod 7 days after today, 7 when that is 0, so 1 to 7 days ahead.
C37_WeekdayResolves ==
    (/\ call.fn = "parse_financial_data"
     /\ call.qualifier \in {"none", "next"}
     /\ ~Truthy(call.date))
    => LET back == ((now_day % 7) - call.day_num) % 7
           fwd == (call.day_num - (now_day % 7)) % 7
           ahead == IF fwd = 0 THEN 7 ELSE fwd
       IN  /\ ~call.result.raised
           /\ call.qualifier = "none"
                 => Get(call.result.data, "date", PyNone) = IsoDate(now_day - back)
           /\ call.qualifier = "next"
                 => /\ Get(call.result.data, "date", PyNone) = IsoDate(now_day + ahead)
                    /\ ahead \in 1..7

\* next monday, read on Monday 2024-01-08, gave Monday 2024-01-15
C37_Witness ==
    /\ call.fn = "parse_financial_data"
    /\ now_day = 7
    /\ call.time_context = NextContext(2)
    /\ call.date = PyNone
    /\ Get(call.result.data, "date", PyNone) = Str(<<"2", "0", "2", "4", "-", "0", "1", "-", "1", "5">>)

\* C38: the response carrying no date and the time context minggu lalu or
\* last week, the date resolved is the one exactly 7 days before today, on
\* every weekday of today.
C38_LastWeekIsSevenDaysBack ==
    (/\ call.fn = "parse_financial_data"
     /\ call.time_context \in {MingguLalu, LastWeek}
     /\ ~Truthy(call.date))
    => /\ ~call.result.raised
       /\ Get(call.result.data, "date", PyNone) = IsoDate(now_day - 7)

-----------------------------------------------------------------------------
(* parse_multiple_transactions step by step: the for loop awaits           *)
(* parse_financial_data for each surviving line, which calls the           *)
(* completion service through call_gemini_with_retry (up to                *)
(* TextMaxRetries + 1 attempts, an asyncio.sleep between two) and falls    *)
(* back to the local result when the last attempt fails                    *)

MaxLines == 3     \* the surviving lines of a batch

InitBatch ==
    /\ MachineAtRest
    /\ now_day = RunDay
    /\ \E n \in 1..MaxLines :
           call = [fn |-> "batch", lines |-> n, line |-> 0, at |-> "between",
                   attempt |-> 0, started |-> <<>>, in_flight |-> {},
                   completed |-> <<>>, transactions |-> <<>>]

\* the loop goes on without awaiting the extraction it started
LoopAdvancesUnawaited(c) == c.at \in {"between", "calling", "retry_wait"}

\* `transaction_data = await parse_financial_data(line)`: the loop reaches
\* the next line once the extraction of the line before has returned
LoopAdvances(c) == c.at = "between"

\* the loop takes the next line and parse_financial_data starts on it
LineStarted ==
    /\ call.fn = "batch"
    /\ LoopAdvances(call)
    /\ call.line < call.lines
    /\ call' = [call EXCEPT !.line = @ + 1, !.at = "extracting", !.attempt = 0,
                            !.started = Append(@, call.line + 1)]
    /\ MachineUnchanged

\* generate_func(): the request of the current line goes to the service
ServiceCalled ==
    /\ call.fn = "batch"
    /\ call.at = "extracting"
    /\ call' = [call EXCEPT !.at = "calling", !.in_flight = @ \cup {call.line}]
    /\ MachineUnchanged

\* the service answers: `return response`
ServiceAnswered ==
    /\ call.fn = "batch"
    /\ call.at = "calling"
    /\ call' = [call EXCEPT !.at = "answered", !.in_flight = @ \ {call.line}]
    /\ MachineUnchanged

\* the service raises: before the last attempt the extraction awaits
\* asyncio.sleep(delay), after it the exception is raised to
\* parse_financial_data, which returns the local result
ServiceFailed ==
    /\ call.fn = "batch"
    /\ call.at = "calling"
    /\ call' = [call EXCEPT !.in_flight = @ \ {call.line},
                            !.at = IF call.attempt < TextMaxRetries
                                   THEN "retry_wait" ELSE "fallback",
                            !.attempt = IF call.attempt < TextMaxRetries
                                        THEN @ + 1 ELSE @]
    /\ MachineUnchanged

\* the sleep is over and the next attempt begins
RetrySlept ==
    /\ call.fn = "batch"
    /\ call.at = "retry_wait"
    /\ call' = [call EXCEPT !.at = "extracting"]
    /\ MachineUnchanged

\* parse_financial_data returns to the loop, which keeps the transaction
\* when its amount is not None
LineExtracted(has_amount) ==
    /\ call.fn = "batch"
    /\ call.at \in {"answered", "fallback"}
    /\ call' = [call EXCEPT !.at = "between",
                            !.completed = Append(@, [line |-> call.line,
                                                     retries |-> call.attempt]),
                            !.transactions = IF has_amount THEN Append(@, call.line)
                                             ELSE @]
    /\ MachineUnchanged

\* `return transactions` after the last line
BatchReturned ==
    /\ call.fn = "batch"
    /\ call.at = "between"
    /\ call.line = call.lines
    /\ call' = [call EXCEPT !.at = "returned"]
    /\ MachineUnchanged

NextBatch ==
    \/ LineStarted
    \/ ServiceCalled
    \/ ServiceAnswered
    \/ ServiceFailed
    \/ RetrySlept
    \/ \E has_amount \in BOOLEAN : LineExtracted(has_amount)
    \/ BatchReturned

SpecBatch == InitBatch /\ [][NextBatch]_vars

\* C39: within one batch, every line started before the latest one has
\* had its extraction completed, retries and waits included, so at most one
\* call of the completion service is in flight.
C39_LinesExtractedInTurn ==
    call.fn = "batch"
    => /\ \A i \in 1..(Len(call.started) - 1) :
              \E k \in 1..Len(call.completed) : call.completed[k].line = call.started[i]
       /\ Cardinality(call.in_flight) <= 1

\* the request of line 2 is in flight after line 1 went through every retry
C39_Witness ==
    /\ call.fn = "batch"
    /\ call.line = 2
    /\ call.at = "calling"
    /\ call.in_flight = {2}
    /\ call.completed = <<[line |-> 1, retries |-> TextMaxRetries]>>

=============================================================================
